---------------------------- MODULE Spec2Model ----------------------------
(***************************************************************************)
(* Model of drivers/intel/fm10k/fm10k-0.23.5-zc/src/fm10k_netdev.c:        *)
(* descriptor ring setup / clean / free, interface open / close, the       *)
(* MAC/VLAN request queue, fm10k_reset_rx_state, the VLAN state tracker    *)
(* (fm10k_update_vid, fm10k_set_rx_mode, fm10k_set_mac), the per-address   *)
(* sync callbacks, fm10k_restore_rx_state, the table of macvlan stations   *)
(* (fm10k_dfwd_add_station, fm10k_dfwd_del_station) and the UDP tunnel     *)
(* port lists (fm10k_udp_tunnel_add / _del, fm10k_free_udp_port_info).     *)
(*                                                                         *)
(* Pointers are records with a `null' field.  Every ring operation is an   *)
(* operator from the ring (and the outcome of the allocator calls it       *)
(* makes) to the new ring, the return value, and the list of release       *)
(* events (vfree, dma_free_coherent, kfree_skb, unmap, ...) it performed.  *)
(***************************************************************************)
EXTENDS Integers, Sequences, FiniteSets, TLC

VARIABLES
    tx_ring,          \* interface->tx_ring[] : queue index -> ring
    rx_ring,          \* interface->rx_ring[] : queue index -> ring
    zombie,           \* interface->pfring_zc.zombie
    irq,              \* interrupts of the queue vectors are requested
    running,          \* the stack considers the interface up (open returned 0)
    last,             \* what the latest operation did: its inputs, result, events
    macvlan_requests, \* interface->macvlan_requests (list of requests)
    caller,           \* per enqueue caller: program position and request in hand
    worker,           \* drain worker: scheduled flag, position, item in hand
    mbx,              \* requests forwarded to the mailbox, in order
    appended,         \* requests in the order their list_add_tail took the lock
    cancelled,        \* ids of requests removed by fm10k_clear_macvlan_queue
    next_id,          \* id given to the next allocated request
    rst,              \* fm10k_reset_rx_state: program position and what it observed
    intf,             \* VLAN state of the interface: active_vlans, xcast_mode, flags, ...
    accel,            \* interface->l2_accel: the forwarding table of macvlan stations
    rcu,              \* station calls in progress, receive-path readers, grace periods
    udp               \* UDP tunnel ports: vxlan_port, geneve_port, tunnel registers

ringVars  == <<tx_ring, rx_ring, zombie, irq, running>>
queueVars == <<macvlan_requests, caller, worker, mbx, appended, cancelled, next_id>>
ctlVars   == <<rst, intf, accel, rcu, udp>>
vars      == <<ringVars, last, queueVars, ctlVars>>

-----------------------------------------------------------------------------
(* Bounds of the model *)

\* descriptors per ring in the slot-level ring specification
MaxCount == 2
\* Tx/Rx queue pairs of the interface in the open/close specification
NumQueues == 4

(* Program constants *)

ENOMEM == 12
\* sizeof(struct fm10k_tx_desc)
TxDescSize == 16
\* sizeof(union fm10k_rx_desc)
RxDescSize == 32
\* alignment of the descriptor block
DescAlign == 4096

\* ring->count values of the open/close specification (ethtool ring sizes)
RingCounts == {128, 200, 256, 512}

-----------------------------------------------------------------------------
(* Buffers, descriptor blocks, rings *)

\* a cleared (all bytes zero) struct fm10k_tx_buffer
ZeroTxBuffer == [skb |-> 0, len |-> 0, next_to_watch |-> 0]
\* a cleared struct fm10k_rx_buffer
ZeroRxBuffer == [page |-> 0]

\* the contents a Tx slot can have while the transmit path is active
TxBufferValues == [skb : {0, 1}, len : {0, 1}, next_to_watch : {0, 1}]

\* A buffer array of n entries is held sparsely: `used' maps the indices of the
\* entries that are not all-zero to their contents, every other entry of
\* 0..n-1 is the zeroed entry.
EmptyMap == [i \in {} |-> 0]
NullBuffer == [null |-> TRUE, n |-> 0, used |-> EmptyMap]

\* array[i], with zero the all-zero entry of the array's type
SlotAt(buf, i, zero) == IF i \in DOMAIN buf.used THEN buf.used[i] ELSE zero

\* array[i] = v
SetSlot(buf, i, v, zero) ==
    [buf EXCEPT !.used =
        IF v = zero
        THEN [j \in (DOMAIN buf.used) \ {i} |-> buf.used[j]]
        ELSE [j \in (DOMAIN buf.used) \cup {i} |-> IF j = i THEN v ELSE buf.used[j]]]

\* memset(array, 0, size)
ZeroSlots(buf) == [buf EXCEPT !.used = EmptyMap]
NullDesc   == [null |-> TRUE, bytes |-> 0]

\* vzalloc(sizeof(buffer) * count): a zeroed array of count entries
vzalloc(count) == [null |-> FALSE, n |-> count, used |-> EmptyMap]

\* ALIGN(x, a) of the kernel: (x + a - 1) & ~(a - 1), a a power of two
ALIGN_down(x, a) == x - (x % a)
ALIGN(x, a) == (x + (a - 1)) - ((x + (a - 1)) % a)

\* a ring as fm10k_alloc_q_vector leaves it: nothing allocated
TornDownRing(count) ==
    [count |-> count, buffer |-> NullBuffer, desc |-> NullDesc, size |-> 0,
     skb |-> 0, next_to_use |-> 0, next_to_clean |-> 0, next_to_alloc |-> 0]

IsTornDown(r) == r.buffer.null /\ r.desc.null
IsSetUp(r) == ~r.buffer.null /\ ~r.desc.null

Ev(name, i) == [e |-> name, i |-> i]

\* number of rings of an array indexed from 0 (num_tx_queues / num_rx_queues)
Len0(rings) == Cardinality(DOMAIN rings)

\* the one element of a singleton set: One({ e(x) : x \in {v} }) is e(v) with v
\* evaluated once
One(S) == CHOOSE x \in S : TRUE

\* vfree(p) releases something only when p is not NULL
VfreeEv(buf) == IF buf.null THEN <<>> ELSE <<Ev("vfree", 0)>>

\* the outcome of a ring operation
Result(r, ret, ev, fault) == [ring |-> r, ret |-> ret, ev |-> ev, fault |-> fault]

-----------------------------------------------------------------------------
(* Ring Resource Manager and Buffer Reclaimer, Tx *)

\* a setup whose error path does not release the buffer array
fm10k_setup_tx_resources_leak(r, bufOk, descOk) ==
    IF ~bufOk THEN Result([r EXCEPT !.buffer = NullBuffer], -ENOMEM, <<>>, FALSE)
    ELSE LET size == ALIGN(r.count * TxDescSize, DescAlign)
             r1 == [r EXCEPT !.buffer = vzalloc(r.count), !.size = size]
         IN IF descOk
            THEN Result([r1 EXCEPT !.desc = [null |-> FALSE, bytes |-> size]],
                        0, <<Ev("vzalloc", 0), Ev("dma_alloc_coherent", 0)>>, FALSE)
            ELSE Result([r1 EXCEPT !.desc = NullDesc], -ENOMEM, <<Ev("vzalloc", 0)>>, FALSE)

\* fm10k_setup_tx_resources; bufOk / descOk: whether vzalloc / dma_alloc_coherent succeed
fm10k_setup_tx_resources(r, bufOk, descOk) ==
    IF ~bufOk
    THEN \* tx_buffer = NULL; goto err: vfree(NULL), tx_buffer = NULL
         Result([r EXCEPT !.buffer = NullBuffer], -ENOMEM, <<>>, FALSE)
    ELSE LET size == ALIGN(r.count * TxDescSize, DescAlign)
             r1 == [r EXCEPT !.buffer = vzalloc(r.count), !.size = size]
         IN IF descOk
            THEN Result([r1 EXCEPT !.desc = [null |-> FALSE, bytes |-> size]],
                        0, <<Ev("vzalloc", 0), Ev("dma_alloc_coherent", 0)>>, FALSE)
            ELSE \* desc = NULL; goto err: vfree(tx_buffer), tx_buffer = NULL
                 Result([r1 EXCEPT !.desc = NullDesc, !.buffer = NullBuffer],
                        -ENOMEM, <<Ev("vzalloc", 0), Ev("vfree", 0)>>, FALSE)

\* an unmap that treats every mapping as a page mapping
UnmapTxEvents_page(b, i) ==
    (IF b.skb # 0 THEN <<Ev("dev_kfree_skb_any", i)>> ELSE <<>>)
        \o (IF b.len # 0 THEN <<Ev("dma_unmap_page", i)>> ELSE <<>>)

\* fm10k_unmap_and_free_tx_resource on slot i: the events, then the cleared entry
UnmapTxEvents(b, i) ==
    IF b.skb # 0
    THEN <<Ev("dev_kfree_skb_any", i)>> \o
         (IF b.len # 0 THEN <<Ev("dma_unmap_single", i)>> ELSE <<>>)
    ELSE IF b.len # 0 THEN <<Ev("dma_unmap_page", i)>> ELSE <<>>

fm10k_unmap_and_free_tx_resource(b, i) ==
    [buf |-> [b EXCEPT !.next_to_watch = 0, !.skb = 0, !.len = 0],
     ev  |-> UnmapTxEvents(b, i)]

\* the events of the loop of fm10k_clean_tx_ring over the slots of idx, in
\* ascending slot order; idx holds the non-zero slots below count (on an
\* all-zero slot fm10k_unmap_and_free_tx_resource releases nothing)
RECURSIVE CleanTxEvents(_, _)
CleanTxEvents(buf, idx) ==
    IF idx = {} THEN <<>>
    ELSE LET i == CHOOSE j \in idx : \A k \in idx : j <= k
         IN fm10k_unmap_and_free_tx_resource(buf.used[i], i).ev
            \o CleanTxEvents(buf, idx \ {i})

\* for (i = 0; i < count; i++) fm10k_unmap_and_free_tx_resource(ring, &tx_buffer[i])
CleanTxSlots(buf, count) ==
    [buf |-> [buf EXCEPT !.used =
                [i \in {j \in DOMAIN buf.used :
                          \/ j >= count
                          \/ fm10k_unmap_and_free_tx_resource(buf.used[j], j).buf
                                 # ZeroTxBuffer} |->
                   IF i < count
                   THEN fm10k_unmap_and_free_tx_resource(buf.used[i], i).buf
                   ELSE buf.used[i]]],
     ev  |-> CleanTxEvents(buf, {j \in DOMAIN buf.used : j < count})]

\* a clean that stops one slot short and clears nothing else
fm10k_clean_tx_ring_short(r) ==
    IF r.buffer.null THEN Result(r, 0, <<>>, FALSE)
    ELSE LET c == CleanTxSlots(r.buffer, r.count - 1)
         IN Result([r EXCEPT !.buffer = c.buf], 0, c.ev, r.desc.null)

\* fm10k_clean_tx_ring
fm10k_clean_tx_ring(r) ==
    IF r.buffer.null THEN Result(r, 0, <<>>, FALSE)
    ELSE LET c  == CleanTxSlots(r.buffer, r.count)
             \* memset(tx_buffer, 0, size)
             r1 == [r EXCEPT !.buffer = ZeroSlots(c.buf)]
         IN IF r.desc.null
            THEN \* memset(NULL, 0, size): the kernel faults here
                 Result(r1, 0, c.ev \o <<Ev("memset_buffer", 0)>>, TRUE)
            ELSE Result(r1, 0,
                        c.ev \o <<Ev("memset_buffer", 0), Ev("memset_desc", 0)>>, FALSE)

\* a free that releases the descriptor block but keeps the stale pointer
fm10k_free_tx_resources_stale(r) ==
    One({ IF c.ring.desc.null
          THEN Result([c.ring EXCEPT !.buffer = NullBuffer], 0, c.ev \o VfreeEv(c.ring.buffer),
                      c.fault)
          ELSE Result([c.ring EXCEPT !.buffer = NullBuffer], 0,
                      c.ev \o VfreeEv(c.ring.buffer) \o <<Ev("dma_free_coherent", 0)>>,
                      c.fault)
          : c \in {fm10k_clean_tx_ring(r)} })

\* fm10k_free_tx_resources; c is the outcome of the fm10k_clean_tx_ring call
fm10k_free_tx_resources(r) ==
    One({ IF c.ring.desc.null
          THEN \* vfree, tx_buffer = NULL; desc not set: don't free
               Result([c.ring EXCEPT !.buffer = NullBuffer], 0, c.ev \o VfreeEv(c.ring.buffer),
                      c.fault)
          ELSE Result([c.ring EXCEPT !.buffer = NullBuffer, !.desc = NullDesc], 0,
                      c.ev \o VfreeEv(c.ring.buffer) \o <<Ev("dma_free_coherent", 0)>>,
                      c.fault)
          : c \in {fm10k_clean_tx_ring(r)} })

-----------------------------------------------------------------------------
(* Ring Resource Manager and Buffer Reclaimer, Rx *)

\* fm10k_setup_rx_resources
fm10k_setup_rx_resources(r, bufOk, descOk) ==
    IF ~bufOk
    THEN Result([r EXCEPT !.buffer = NullBuffer], -ENOMEM, <<>>, FALSE)
    ELSE LET size == ALIGN(r.count * RxDescSize, DescAlign)
             r1 == [r EXCEPT !.buffer = vzalloc(r.count), !.size = size]
         IN IF descOk
            THEN Result([r1 EXCEPT !.desc = [null |-> FALSE, bytes |-> size]],
                        0, <<Ev("vzalloc", 0), Ev("dma_alloc_coherent", 0)>>, FALSE)
            ELSE Result([r1 EXCEPT !.desc = NullDesc, !.buffer = NullBuffer],
                        -ENOMEM, <<Ev("vzalloc", 0), Ev("vfree", 0)>>, FALSE)

\* the events of the loop of fm10k_clean_rx_ring over the slots of idx, in
\* ascending slot order; idx holds the non-zero slots below count
RECURSIVE CleanRxEvents(_, _)
CleanRxEvents(buf, idx) ==
    IF idx = {} THEN <<>>
    ELSE LET i == CHOOSE j \in idx : \A k \in idx : j <= k
         IN (IF buf.used[i].page = 0 THEN <<>>
             ELSE <<Ev("dma_unmap_page", i), Ev("__free_page", i)>>)
            \o CleanRxEvents(buf, idx \ {i})

\* for (i = 0; i < count; i++): slots without a page are skipped, the page
\* pointer of the others is set to NULL
CleanRxSlots(buf, count) ==
    [buf |-> [buf EXCEPT !.used =
                [i \in {j \in DOMAIN buf.used :
                          j >= count \/ [buf.used[j] EXCEPT !.page = 0] # ZeroRxBuffer} |->
                   IF i < count THEN [buf.used[i] EXCEPT !.page = 0] ELSE buf.used[i]]],
     ev  |-> CleanRxEvents(buf, {j \in DOMAIN buf.used : j < count})]

\* a clean that forgets the packet being assembled
fm10k_clean_rx_ring_keepskb(r) ==
    IF r.buffer.null THEN Result(r, 0, <<>>, FALSE)
    ELSE LET c   == CleanRxSlots(r.buffer, r.count)
             r1  == [r EXCEPT !.buffer = ZeroSlots(c.buf)]
         IN Result([r1 EXCEPT !.next_to_alloc = 0,
                              !.next_to_clean = 0, !.next_to_use = 0], 0,
                   c.ev \o <<Ev("memset_buffer", 0), Ev("memset_desc", 0)>>,
                   r.desc.null)

\* fm10k_clean_rx_ring
fm10k_clean_rx_ring(r) ==
    IF r.buffer.null THEN Result(r, 0, <<>>, FALSE)
    ELSE LET ev0 == IF r.skb # 0 THEN <<Ev("dev_kfree_skb", 0)>> ELSE <<>>
             c   == CleanRxSlots(r.buffer, r.count)
             r1  == [r EXCEPT !.skb = 0, !.buffer = ZeroSlots(c.buf)]
         IN IF r.desc.null
            THEN Result(r1, 0, ev0 \o c.ev \o <<Ev("memset_buffer", 0)>>, TRUE)
            ELSE Result([r1 EXCEPT !.next_to_alloc = 0,
                                   !.next_to_clean = 0, !.next_to_use = 0], 0,
                        ev0 \o c.ev \o <<Ev("memset_buffer", 0), Ev("memset_desc", 0)>>,
                        FALSE)

\* a free that releases the buffer array but keeps the stale pointer
fm10k_free_rx_resources_keepbuf(r) ==
    One({ IF c.ring.desc.null
          THEN Result(c.ring, 0, c.ev \o VfreeEv(c.ring.buffer), c.fault)
          ELSE Result([c.ring EXCEPT !.desc = NullDesc], 0,
                      c.ev \o VfreeEv(c.ring.buffer) \o <<Ev("dma_free_coherent", 0)>>,
                      c.fault)
          : c \in {fm10k_clean_rx_ring(r)} })

\* fm10k_free_rx_resources; c is the outcome of the fm10k_clean_rx_ring call
fm10k_free_rx_resources(r) ==
    One({ IF c.ring.desc.null
          THEN Result([c.ring EXCEPT !.buffer = NullBuffer], 0, c.ev \o VfreeEv(c.ring.buffer),
                      c.fault)
          ELSE Result([c.ring EXCEPT !.buffer = NullBuffer, !.desc = NullDesc], 0,
                      c.ev \o VfreeEv(c.ring.buffer) \o <<Ev("dma_free_coherent", 0)>>,
                      c.fault)
          : c \in {fm10k_clean_rx_ring(r)} })

-----------------------------------------------------------------------------
(* All-queue operations.  plan = [at, buf]: the allocation that fails, if    *)
(* any: in the setup of ring `at', the buffer array (buf) or the descriptor *)
(* block (~buf); at = -1: none fails.  The events of these operations are   *)
(* the rings acquired (setup succeeded) and released (free called).         *)

NoFailure == [at |-> -1, buf |-> FALSE]
BufOk(plan, i)  == ~(plan.at = i /\ plan.buf)
DescOk(plan, i) == ~(plan.at = i /\ ~plan.buf)

AllResult(rings, ret, ev, fault) == [rings |-> rings, ret |-> ret, ev |-> ev, fault |-> fault]

\* while (i--) fm10k_free_tx_resources(interface->tx_ring[i]);
RECURSIVE RewindTx(_, _, _, _)
RewindTx(rings, i, ev, fault) ==
    IF i = 0 THEN AllResult(rings, 0, ev, fault)
    ELSE One({ RewindTx(nr, i - 1, nev, nf) :
               nr  \in {[rings EXCEPT ![i - 1] = fm10k_free_tx_resources(rings[i - 1]).ring]},
               nev \in {ev \o <<Ev("free_tx", i - 1)>>},
               nf  \in {fault \/ fm10k_free_tx_resources(rings[i - 1]).fault} })

\* a rewind written while (--i): it never frees ring 0
RECURSIVE RewindTx_skip0(_, _, _, _)
RewindTx_skip0(rings, i, ev, fault) ==
    IF i <= 1 THEN AllResult(rings, 0, ev, fault)
    ELSE One({ RewindTx_skip0(nr, i - 1, nev, nf) :
               nr  \in {[rings EXCEPT ![i - 1] = fm10k_free_tx_resources(rings[i - 1]).ring]},
               nev \in {ev \o <<Ev("free_tx", i - 1)>>},
               nf  \in {fault \/ fm10k_free_tx_resources(rings[i - 1]).fault} })

\* err_setup_tx of fm10k_setup_all_tx_resources, entered with index i
SetupAllTxUnwind_skip0(rings, i, ev, fault) == RewindTx_skip0(rings, i, ev, fault)
SetupAllTxUnwind(rings, i, ev, fault) == RewindTx(rings, i, ev, fault)

\* the loop of fm10k_setup_all_tx_resources from ring i on; s is the outcome of
\* fm10k_setup_tx_resources(interface->tx_ring[i])
RECURSIVE SetupAllTxLoop(_, _, _, _, _)
SetupAllTxLoop(rings, i, n, plan, ev) ==
    IF i >= n THEN AllResult(rings, 0, ev, FALSE)
    ELSE One({ IF s.ret = 0
               THEN One({ SetupAllTxLoop(nr, i + 1, n, plan, nev) :
                          nr  \in {[rings EXCEPT ![i] = s.ring]},
                          nev \in {ev \o <<Ev("setup_tx", i)>>} })
               ELSE One({ AllResult(u.rings, s.ret, u.ev, u.fault) :
                          u \in {SetupAllTxUnwind([rings EXCEPT ![i] = s.ring],
                                                  i, ev, FALSE)} })
               : s \in {fm10k_setup_tx_resources(rings[i], BufOk(plan, i),
                                                 DescOk(plan, i))} })

fm10k_setup_all_tx_resources(rings, n, plan) == SetupAllTxLoop(rings, 0, n, plan, <<>>)

\* fm10k_free_all_tx_resources
fm10k_free_all_tx_resources(rings, n) == RewindTx(rings, n, <<>>, FALSE)

\* while (i--) fm10k_free_rx_resources(interface->rx_ring[i]);
RECURSIVE RewindRx(_, _, _, _)
RewindRx(rings, i, ev, fault) ==
    IF i = 0 THEN AllResult(rings, 0, ev, fault)
    ELSE One({ RewindRx(nr, i - 1, nev, nf) :
               nr  \in {[rings EXCEPT ![i - 1] = fm10k_free_rx_resources(rings[i - 1]).ring]},
               nev \in {ev \o <<Ev("free_rx", i - 1)>>},
               nf  \in {fault \/ fm10k_free_rx_resources(rings[i - 1]).fault} })

\* the loop of fm10k_setup_all_rx_resources from ring i on
RECURSIVE SetupAllRxLoop(_, _, _, _, _)
SetupAllRxLoop(rings, i, n, plan, ev) ==
    IF i >= n THEN AllResult(rings, 0, ev, FALSE)
    ELSE One({ IF s.ret = 0
               THEN One({ SetupAllRxLoop(nr, i + 1, n, plan, nev) :
                          nr  \in {[rings EXCEPT ![i] = s.ring]},
                          nev \in {ev \o <<Ev("setup_rx", i)>>} })
               ELSE One({ AllResult(u.rings, s.ret, u.ev, u.fault) :
                          u \in {RewindRx([rings EXCEPT ![i] = s.ring], i, ev, FALSE)} })
               : s \in {fm10k_setup_rx_resources(rings[i], BufOk(plan, i),
                                                 DescOk(plan, i))} })

fm10k_setup_all_rx_resources(rings, n, plan) == SetupAllRxLoop(rings, 0, n, plan, <<>>)

\* fm10k_free_all_rx_resources
fm10k_free_all_rx_resources(rings, n) == RewindRx(rings, n, <<>>, FALSE)

-----------------------------------------------------------------------------
(* Interface open and close *)

\* what an operation leaves in `last'
Last(op, in, ret, ev, fault, pre) ==
    [op |-> op, in |-> in, ret |-> ret, ev |-> ev, fault |-> fault, pre |-> pre]
LastNone == Last("none", <<>>, 0, <<>>, FALSE, <<>>)

\* the step of fm10k_open that fails, if any, and the error it returns
OpenInputs(ntx, nrx) ==
    {[step |-> "none", plan |-> NoFailure, err |-> 0]}
    \cup {[step |-> "tx", plan |-> [at |-> i, buf |-> b], err |-> -ENOMEM] :
             i \in 0..(ntx - 1), b \in BOOLEAN}
    \cup {[step |-> "rx", plan |-> [at |-> i, buf |-> b], err |-> -ENOMEM] :
             i \in 0..(nrx - 1), b \in BOOLEAN}
    \cup {[step |-> st, plan |-> NoFailure, err |-> -ENOMEM] :
             st \in {"irq", "set_tx_queues", "set_rx_queues"}}

PlanFor(in, step) == IF in.step = step THEN in.plan ELSE NoFailure

OpenResult(tx, rx, z, q, up, ret, ev, fault) ==
    [tx |-> tx, rx |-> rx, zombie |-> z, irq |-> q, running |-> up,
     ret |-> ret, ev |-> ev, fault |-> fault]

\* the unwinding of fm10k_open from err_req_irq (irq_held = FALSE) or from
\* err_set_queues (irq_held = TRUE) on: t and r are the outcomes of the two
\* setup_all calls
OpenUnwind_nofall(t, r, z, irq_held, err) ==
    One({ OpenResult(t.rings, frx.rings, z, FALSE, FALSE, err,
                     t.ev \o r.ev
                        \o (IF irq_held THEN <<Ev("request_irq", 0), Ev("free_irq", 0)>>
                            ELSE <<>>)
                        \o frx.ev,
                     frx.fault)
          : frx \in {fm10k_free_all_rx_resources(r.rings, Len0(r.rings))} })

OpenUnwind(t, r, z, irq_held, err) ==
    One({ OpenResult(ftx.rings, frx.rings, z, FALSE, FALSE, err,
                     t.ev \o r.ev
                        \o (IF irq_held THEN <<Ev("request_irq", 0), Ev("free_irq", 0)>>
                            ELSE <<>>)
                        \o frx.ev \o ftx.ev,
                     frx.fault \/ ftx.fault)
          : frx \in {fm10k_free_all_rx_resources(r.rings, Len0(r.rings))},
            ftx \in {fm10k_free_all_tx_resources(t.rings, Len0(t.rings))} })

\* fm10k_open after the Tx rings are set up (outcome t)
OpenAfterTx(t, rx, z, q, in) ==
    One({ IF r.ret # 0
          THEN \* err_setup_rx
               One({ OpenResult(ftx.rings, r.rings, z, q, FALSE, r.ret,
                                t.ev \o r.ev \o ftx.ev, r.fault \/ ftx.fault)
                     : ftx \in {fm10k_free_all_tx_resources(t.rings, Len0(t.rings))} })
          ELSE IF in.step = "irq"
          THEN \* fm10k_qv_request_irq failed: err_req_irq
               OpenUnwind(t, r, z, FALSE, in.err)
          ELSE IF in.step \in {"set_tx_queues", "set_rx_queues"}
          THEN \* netif_set_real_num_*_queues failed: err_set_queues
               OpenUnwind(t, r, z, TRUE, in.err)
          ELSE \* fm10k_up
               OpenResult(t.rings, r.rings, z, TRUE, TRUE, 0,
                          t.ev \o r.ev \o <<Ev("request_irq", 0)>>, FALSE)
          : r \in {fm10k_setup_all_rx_resources(rx, Len0(rx), PlanFor(in, "rx"))} })

\* fm10k_open that returns for a zombie without clearing the flag
fm10k_open_keepzombie(tx, rx, z, q, in) ==
    IF z
    THEN OpenResult(tx, rx, TRUE, q, TRUE, 0, <<>>, FALSE)
    ELSE One({ IF t.ret # 0
               THEN OpenResult(t.rings, rx, z, q, FALSE, t.ret, t.ev, t.fault)
               ELSE OpenAfterTx(t, rx, z, q, in)
               : t \in {fm10k_setup_all_tx_resources(tx, Len0(tx), PlanFor(in, "tx"))} })

\* fm10k_open with tx / rx the ring arrays, z the zombie flag, q the interrupt
\* state, in the failing step
fm10k_open(tx, rx, z, q, in) ==
    IF z
    THEN \* previously brought down while in use by ZC: ignore
         OpenResult(tx, rx, FALSE, q, TRUE, 0, <<>>, FALSE)
    ELSE One({ IF t.ret # 0
               THEN \* err_setup_tx
                    OpenResult(t.rings, rx, z, q, FALSE, t.ret, t.ev, t.fault)
               ELSE OpenAfterTx(t, rx, z, q, in)
               : t \in {fm10k_setup_all_tx_resources(tx, Len0(tx), PlanFor(in, "tx"))} })

\* fm10k_close with usage the value read from pfring_zc.usage_counter
fm10k_close(tx, rx, z, q, usage) ==
    IF usage > 0
    THEN \* brought down while in use by ZC: ignore
         OpenResult(tx, rx, TRUE, q, FALSE, 0, <<>>, FALSE)
    ELSE One({ OpenResult(ftx.rings, frx.rings, z, FALSE, FALSE, 0,
                          <<Ev("free_irq", 0)>> \o ftx.ev \o frx.ev,
                          ftx.fault \/ frx.fault)
               : ftx \in {fm10k_free_all_tx_resources(tx, Len0(tx))},
                 frx \in {fm10k_free_all_rx_resources(rx, Len0(rx))} })

-----------------------------------------------------------------------------
(* The MAC/VLAN request queue: requests and initial state *)

\* enqueue callers running concurrently
NumCallers == 2
\* requests allocated in one run
MaxReq == 3

Callers == 1..NumCallers

NoReq == [id |-> 0, type |-> "NONE", glort |-> 0, addr |-> 0, vid |-> 0, set |-> FALSE]

QueueInit ==
    /\ macvlan_requests = <<>>
    /\ caller = [c \in Callers |-> [pc |-> "idle", req |-> NoReq]]
    /\ worker = [sched |-> FALSE, pc |-> "idle", item |-> NoReq, active |-> 0]
    /\ mbx = <<>>
    /\ appended = <<>>
    /\ cancelled = {}
    /\ next_id = 1

-----------------------------------------------------------------------------
(* Control-path state outside the specification at hand: at rest *)

\* fm10k_reset_rx_state is not running
ResetIdle == [pc |-> "idle", mark |-> 0, quiet |-> FALSE, seen |-> <<>>]

\* The forwarding table of the macvlan stations.  tables holds every
\* struct fm10k_l2_accel allocated so far, a table's address being its index;
\* l2_accel is interface->l2_accel and ring the l2_accel of the receive rings
\* (0: NULL); retired holds the tables handed to kfree_rcu; glort_count is
\* interface->glort_count, ready fm10k_host_mbx_ready, adds and dels the calls of
\* fm10k_dfwd_add_station that added a station and of fm10k_dfwd_del_station,
\* fails the request allocations that failed in them.
NoAccel ==
    [tables |-> <<>>, l2_accel |-> 0, ring |-> 0, retired |-> {},
     glort_count |-> 0, ready |-> FALSE, adds |-> 0, dels |-> 0, fails |-> 0]

\* an interface that is down, with no VLAN and no address to synchronise (ops
\* counts the operations of the tracker run so far)
IntfRest ==
    [active_vlans |-> {}, xcast_mode |-> "NONE", flags |-> {}, vid |-> 0,
     vlan_override |-> FALSE, default_vid |-> 1, down |-> TRUE, ies |-> FALSE,
     vf |-> FALSE, glort |-> 1, mac_addr |-> 2, rx_vid |-> <<1>>,
     uc |-> <<>>, mc |-> <<>>, ops |-> 0]

\* receive-path readers of the forwarding table
NumReaders == 1
Readers == 1..NumReaders

\* a reader outside its read-side section; ref is the table it has loaded
ReaderIdle == [pc |-> "idle", ref |-> 0]
\* no station call in progress
WriterIdle == [pc |-> "idle", op |-> "none", sdev |-> 0, new |-> 0, old |-> 0, i |-> 0]

\* No station call in progress (w), every reader outside its read-side section
\* (rd), no grace period running (wait: the pairs of a retired table and a
\* reader it still waits for), no table given back to the allocator (freed),
\* no station call made yet (ops).
RcuIdle ==
    [w |-> WriterIdle, rd |-> [r \in Readers |-> ReaderIdle],
     wait |-> {}, freed |-> {}, ops |-> 0]

\* The UDP tunnel ports of the interface: vxlan_port and geneve_port are the
\* two lists, of entries [id, port, sa_family] (id names the allocation, port
\* is in network byte order); cfg_vxlan and cfg_geneve the port fields of
\* FM10K_TUNNEL_CFG and FM10K_TUNNEL_CFG_GENEVE; freed the ids given to kfree,
\* in order; next the id of the next allocation; ops the calls made.
UdpRest ==
    [vxlan_port |-> <<>>, geneve_port |-> <<>>, cfg_vxlan |-> 0, cfg_geneve |-> 0,
     freed |-> <<>>, next |-> 1, ops |-> 0]

\* ntohs on a little-endian host
ntohs(p) == ((p % 256) * 256) + (p \div 256)

\* list_first_entry_or_null: the id of the first entry, 0 for NULL
list_first_entry_or_null(ports) == IF ports = <<>> THEN 0 ELSE ports[1].id

\* list_del(&port->list) for the entry with this id, on whichever list it is
ListDelPort(U, id) ==
    [U EXCEPT !.vxlan_port = SelectSeq(@, LAMBDA e : e.id # id),
              !.geneve_port = SelectSeq(@, LAMBDA e : e.id # id)]

\* fm10k_restore_udp_port_info: only the PF configures tunnels
fm10k_restore_udp_port_info(U, vf) ==
    IF vf
    THEN U
    ELSE [U EXCEPT !.cfg_vxlan = IF U.vxlan_port = <<>> THEN 0
                                 ELSE ntohs(U.vxlan_port[1].port),
                   !.cfg_geneve = IF U.geneve_port = <<>> THEN 0
                                  ELSE ntohs(U.geneve_port[1].port)]

\* fm10k_free_udp_port_info: flush all entries from vxlan list
RECURSIVE FlushVxlan(_, _)
FlushVxlan(U, port) ==
    IF port = 0
    THEN U
    ELSE One({ FlushVxlan(U1, list_first_entry_or_null(U1.vxlan_port))
               : U1 \in {[ListDelPort(U, port) EXCEPT !.freed = Append(@, port)]} })

\* fm10k_free_udp_port_info: flush all entries from geneve list; the next
\* entry is taken from the vxlan list
RECURSIVE FlushGeneve(_, _)
FlushGeneve(U, port) ==
    IF port = 0
    THEN U
    ELSE One({ FlushGeneve(U1, list_first_entry_or_null(U1.vxlan_port))
               : U1 \in {[ListDelPort(U, port) EXCEPT !.freed = Append(@, port)]} })

\* fm10k_free_udp_port_info(interface)
fm10k_free_udp_port_info(U) ==
    One({ FlushGeneve(U1, list_first_entry_or_null(U1.geneve_port))
          : U1 \in {FlushVxlan(U, list_first_entry_or_null(U.vxlan_port))} })

\* fm10k_remove_tunnel_port: the comparison of an entry with ti
TunnelMatch(e, ti) == e.port = ti.port /\ e.sa_family = ti.sa_family

\* fm10k_remove_tunnel_port(ports, ti): the first entry with the port and the
\* family of ti is taken off the list; port is that entry, with id 0 when
\* there is none
fm10k_remove_tunnel_port(ports, ti) ==
    IF \E k \in 1..Len(ports) : TunnelMatch(ports[k], ti)
    THEN One({ [ports |-> SelectSeq(ports, LAMBDA e : e.id # ports[k].id),
                port |-> ports[k]]
               : k \in { j \in 1..Len(ports) :
                            /\ TunnelMatch(ports[j], ti)
                            /\ \A i \in 1..(j - 1) : ~TunnelMatch(ports[i], ti) } })
    ELSE [ports |-> ports, port |-> [id |-> 0, port |-> 0, sa_family |-> 0]]

\* fm10k_insert_tunnel_port(ports, ti): the entry of ti moves to the tail, or
\* a new one is allocated for it; r.next is the id of the next allocation
fm10k_insert_tunnel_port(ports, next, ti, allocOk) ==
    One({ IF r.port.id # 0
          THEN [ports |-> Append(r.ports, r.port), next |-> next]
          ELSE IF ~allocOk
          THEN [ports |-> r.ports, next |-> next]
          ELSE [ports |-> Append(r.ports, [id |-> next, port |-> ti.port,
                                           sa_family |-> ti.sa_family]),
                next |-> next + 1]
          : r \in {fm10k_remove_tunnel_port(ports, ti)} })

\* fm10k_udp_tunnel_add(dev, ti)
fm10k_udp_tunnel_add(U, vf, ti, allocOk) ==
    IF vf
    THEN U
    ELSE IF ti.type = "UDP_TUNNEL_TYPE_VXLAN"
    THEN One({ fm10k_restore_udp_port_info(
                   [U EXCEPT !.vxlan_port = r.ports, !.next = r.next], vf)
               : r \in {fm10k_insert_tunnel_port(U.vxlan_port, U.next, ti, allocOk)} })
    ELSE IF ti.type = "UDP_TUNNEL_TYPE_GENEVE"
    THEN One({ fm10k_restore_udp_port_info(
                   [U EXCEPT !.geneve_port = r.ports, !.next = r.next], vf)
               : r \in {fm10k_insert_tunnel_port(U.geneve_port, U.next, ti, allocOk)} })
    ELSE U

\* fm10k_udp_tunnel_del(dev, ti): kfree(NULL) does nothing
fm10k_udp_tunnel_del(U, vf, ti) ==
    IF vf
    THEN U
    ELSE IF ti.type = "UDP_TUNNEL_TYPE_VXLAN"
    THEN One({ fm10k_restore_udp_port_info(
                   [U EXCEPT !.vxlan_port = r.ports,
                             !.freed = IF r.port.id = 0 THEN @ ELSE Append(@, r.port.id)],
                   vf)
               : r \in {fm10k_remove_tunnel_port(U.vxlan_port, ti)} })
    ELSE IF ti.type = "UDP_TUNNEL_TYPE_GENEVE"
    THEN One({ fm10k_restore_udp_port_info(
                   [U EXCEPT !.geneve_port = r.ports,
                             !.freed = IF r.port.id = 0 THEN @ ELSE Append(@, r.port.id)],
                   vf)
               : r \in {fm10k_remove_tunnel_port(U.geneve_port, ti)} })
    ELSE U

CtlRest ==
    /\ rst = ResetIdle
    /\ intf = IntfRest
    /\ accel = NoAccel
    /\ rcu = RcuIdle
    /\ udp = UdpRest

-----------------------------------------------------------------------------
(* The MAC/VLAN request queue: operations *)

\* logical ports (glorts) that requests target
Glorts == {1, 2}

\* is_multicast_ether_addr: the low bit of the first octet; addresses are
\* modelled by that octet
is_multicast_ether_addr(addr) == addr % 2 = 1

\* what the callers ask for: a VLAN update or a MAC update
EnqueueInputs ==
    [fn : {"vlan"}, glort : {0}, addr : {0}, vid : {1}, set : {TRUE}]
    \cup [fn : {"mac"}, glort : {1}, addr : {2, 3}, vid : {1}, set : {TRUE}]
    \cup [fn : {"mac"}, glort : {2}, addr : {2}, vid : {1}, set : {TRUE}]

\* the request fm10k_queue_vlan_request / fm10k_queue_mac_request populates;
\* id is not a field of the code's request: it labels the request with the
\* position of its append among all appends (0 before the append)
MakeRequest(in, id) ==
    IF in.fn = "vlan"
    THEN [id |-> id, type |-> "FM10K_VLAN_REQUEST", glort |-> 0, addr |-> 0,
          vid |-> in.vid, set |-> in.set]
    ELSE [id |-> id,
          type |-> IF is_multicast_ether_addr(in.addr) THEN "FM10K_MC_MAC_REQUEST"
                   ELSE "FM10K_UC_MAC_REQUEST",
          glort |-> in.glort, addr |-> in.addr, vid |-> in.vid, set |-> in.set]

IsMacRequest(r) == r.type \in {"FM10K_MC_MAC_REQUEST", "FM10K_UC_MAC_REQUEST"}
IsVlanRequest(r) == r.type = "FM10K_VLAN_REQUEST"

\* list_add(&request->list, &requests): insertion at the head
list_add(req, list) == <<req>> \o list
\* list_add_tail by two callers that both read the same tail, as without the
\* lock: the later link replaces the earlier one
list_add_tail_unlocked(req, list) ==
    IF list = <<>> THEN <<req>> ELSE Append(SubSeq(list, 1, Len(list) - 1), req)
\* list_add_tail(&request->list, &interface->macvlan_requests)
list_add_tail(req, list) == Append(list, req)

\* the switch of fm10k_clear_macvlan_queue without the glort test: every MAC
\* request falls through
ClearRemoves_anyglort(r, glort, vlans) == vlans

\* the switch of fm10k_clear_macvlan_queue: whether request r is unlinked and freed
ClearRemoves(r, glort, vlans) ==
    IF IsMacRequest(r)
    THEN IF r.glort # glort
         THEN FALSE     \* don't free requests for other interfaces: break
         ELSE vlans     \* fall through to case FM10K_VLAN_REQUEST
    ELSE vlans          \* case FM10K_VLAN_REQUEST: if (vlans) list_del, kfree

\* fm10k_clear_macvlan_queue: the list after list_for_each_entry_safe
fm10k_clear_macvlan_queue(list, glort, vlans) ==
    LET Keep(r) == ~ClearRemoves(r, glort, vlans) IN SelectSeq(list, Keep)

Ids(list) == [k \in 1..Len(list) |-> list[k].id]
IdSet(list) == {list[k].id : k \in 1..Len(list)}

\* a failed allocation that still signals the drain worker
QueueAllocFail_signal(c) ==
    /\ caller[c].pc = "idle"
    /\ next_id + Cardinality({d \in Callers : caller[d].pc = "append"}) <= MaxReq
    /\ last' = Last("queue_request", <<>>, -ENOMEM, <<>>, FALSE, <<>>)
    /\ worker' = [worker EXCEPT !.sched = TRUE, !.pc = "pop", !.active = 1]
    /\ UNCHANGED <<macvlan_requests, caller, mbx, appended, cancelled, next_id,
                   ringVars, ctlVars>>

\* kzalloc of fm10k_queue_vlan_request / fm10k_queue_mac_request failed
QueueAllocFail(c) ==
    /\ caller[c].pc = "idle"
    /\ next_id + Cardinality({d \in Callers : caller[d].pc = "append"}) <= MaxReq
    /\ last' = Last("queue_request", <<>>, -ENOMEM, <<>>, FALSE, <<>>)
    /\ UNCHANGED <<queueVars, ringVars, ctlVars>>

\* kzalloc succeeded: the request is populated
QueueAlloc(c) ==
    /\ caller[c].pc = "idle"
    /\ next_id + Cardinality({d \in Callers : caller[d].pc = "append"}) <= MaxReq
    /\ \E in \in EnqueueInputs :
          caller' = [caller EXCEPT ![c] = [pc |-> "append", req |-> MakeRequest(in, 0)]]
    /\ last' = LastNone
    /\ UNCHANGED <<macvlan_requests, worker, mbx, appended, cancelled, next_id, ringVars, ctlVars>>

\* spin_lock_irqsave; list_add_tail; spin_unlock_irqrestore
QueueAppend(c) ==
    /\ caller[c].pc = "append"
    /\ macvlan_requests' =
          list_add_tail([caller[c].req EXCEPT !.id = next_id], macvlan_requests)
    /\ appended' = Append(appended, next_id)
    /\ next_id' = next_id + 1
    /\ caller' = [caller EXCEPT ![c] = [pc |-> "schedule", req |-> NoReq]]
    /\ last' = LastNone
    /\ UNCHANGED <<worker, mbx, cancelled, ringVars, ctlVars>>

\* a signal that starts an invocation of the drain worker whether or not one
\* is scheduled
fm10k_macvlan_schedule_always(w) ==
    [w EXCEPT !.sched = TRUE, !.pc = "pop", !.active = @ + 1]

\* fm10k_macvlan_schedule: test-and-set of the scheduled flag; only the signal
\* that sets the flag starts an invocation of the drain worker (active counts
\* the invocations started and not finished)
fm10k_macvlan_schedule(w) ==
    IF w.sched THEN w
    ELSE [w EXCEPT !.sched = TRUE, !.pc = "pop", !.active = @ + 1]

\* fm10k_macvlan_schedule(interface); return 0
QueueSchedule(c) ==
    /\ caller[c].pc = "schedule"
    /\ worker' = fm10k_macvlan_schedule(worker)
    /\ caller' = [caller EXCEPT ![c] = [pc |-> "idle", req |-> NoReq]]
    /\ last' = LastNone
    /\ UNCHANGED <<macvlan_requests, mbx, appended, cancelled, next_id, ringVars, ctlVars>>

\* drain worker: pop the first request under the lock, or finish when the
\* list is empty
DrainPop ==
    /\ worker.sched /\ worker.pc = "pop"
    /\ IF macvlan_requests = <<>>
       THEN /\ worker' = [sched |-> FALSE, pc |-> "idle", item |-> NoReq,
                            active |-> worker.active - 1]
            /\ UNCHANGED macvlan_requests
       ELSE /\ worker' = [worker EXCEPT !.pc = "forward", !.item = Head(macvlan_requests)]
            /\ macvlan_requests' = Tail(macvlan_requests)
    /\ last' = LastNone
    /\ UNCHANGED <<caller, mbx, appended, cancelled, next_id, ringVars, ctlVars>>

\* drain worker: forward the request to the mailbox and discard it, whatever
\* the outcome of the forwarding
DrainForward ==
    /\ worker.sched /\ worker.pc = "forward"
    /\ mbx' = Append(mbx, worker.item)
    /\ worker' = [worker EXCEPT !.pc = "pop", !.item = NoReq]
    /\ last' = LastNone
    /\ UNCHANGED <<macvlan_requests, caller, appended, cancelled, next_id, ringVars, ctlVars>>

\* fm10k_clear_macvlan_queue(interface, glort, vlans), under the lock
Cancel ==
    /\ \E glort \in Glorts, vlans \in BOOLEAN :
          /\ macvlan_requests' = fm10k_clear_macvlan_queue(macvlan_requests, glort, vlans)
          /\ last' = Last("cancel", [glort |-> glort, vlans |-> vlans], 0, <<>>, FALSE,
                          macvlan_requests)
    /\ cancelled' = cancelled \cup (IdSet(macvlan_requests) \ IdSet(macvlan_requests'))
    /\ UNCHANGED <<caller, worker, mbx, appended, next_id, ringVars, ctlVars>>

QueueSpecInit ==
    /\ tx_ring = [q \in {0} |-> TornDownRing(1)]
    /\ rx_ring = [q \in {0} |-> TornDownRing(1)]
    /\ zombie = FALSE
    /\ irq = FALSE
    /\ running = FALSE
    /\ last = LastNone
    /\ QueueInit
    /\ CtlRest

QueueNext ==
    \/ \E c \in Callers : QueueAllocFail(c)
    \/ \E c \in Callers : QueueAlloc(c)
    \/ \E c \in Callers : QueueAppend(c)
    \/ \E c \in Callers : QueueSchedule(c)
    \/ DrainPop
    \/ DrainForward
    \/ Cancel

SpecQueue == QueueSpecInit /\ [][QueueNext]_vars

\* The drain worker is a work item: once scheduled it runs, and each of its
\* steps is taken.  An enqueue caller that has appended goes on to signal.
SpecQueueFair ==
    /\ SpecQueue
    /\ WF_vars(DrainPop)
    /\ WF_vars(DrainForward)
    /\ \A c \in Callers : WF_vars(QueueSchedule(c))

-----------------------------------------------------------------------------
(* fm10k_reset_rx_state against the request queue *)

\* interface->glort in the reset specification
ResetGlort == 1

\* fm10k_reset_rx_state is entered
ResetStart ==
    /\ rst.pc = "idle"
    /\ rst' = [rst EXCEPT !.pc = "wait"]
    /\ last' = LastNone
    /\ UNCHANGED <<queueVars, ringVars, intf, accel, rcu, udp>>

\* while (test_bit(__FM10K_MACVLAN_SCHED, interface->state)) usleep_range():
\* the loop is left when the flag is read clear
ResetWait ==
    /\ rst.pc = "wait"
    /\ ~worker.sched
    /\ rst' = [rst EXCEPT !.pc = "cancel", !.mark = Len(appended),
                          !.quiet = \A c \in Callers : caller[c].pc = "idle"]
    /\ last' = LastNone
    /\ UNCHANGED <<queueVars, ringVars, intf, accel, rcu, udp>>

\* fm10k_clear_macvlan_queue(interface, interface->glort, true)
ResetCancel ==
    /\ rst.pc = "cancel"
    /\ macvlan_requests' = fm10k_clear_macvlan_queue(macvlan_requests, ResetGlort, TRUE)
    /\ cancelled' = cancelled \cup (IdSet(macvlan_requests) \ IdSet(macvlan_requests'))
    /\ rst' = [rst EXCEPT !.pc = "teardown"]
    /\ last' = Last("cancel", [glort |-> ResetGlort, vlans |-> TRUE], 0, <<>>, FALSE,
                    macvlan_requests)
    /\ UNCHANGED <<caller, worker, mbx, appended, next_id, ringVars, intf, accel, rcu, udp>>

\* fm10k_mbx_lock; if (fm10k_host_mbx_ready) update_lport_state(hw, glort,
\* glort_count, false); fm10k_mbx_unlock.  seen keeps what was on the list and
\* in the worker's hand when the disable was sent; mark is the number of
\* appends so far, in rst as of the end of the wait, where quiet tells that no
\* enqueue was under way then.
ResetTeardown ==
    /\ rst.pc = "teardown"
    /\ \E ready \in BOOLEAN :
          rst' = [rst EXCEPT !.pc = "done",
                             !.seen = IF ready
                                      THEN <<[list |-> macvlan_requests,
                                              item |-> worker.item,
                                              mark |-> Len(appended)]>>
                                      ELSE <<>>]
    /\ last' = LastNone
    /\ UNCHANGED <<queueVars, ringVars, intf, accel, rcu, udp>>

ResetNext ==
    \/ \E c \in Callers : QueueAlloc(c)
    \/ \E c \in Callers : QueueAppend(c)
    \/ \E c \in Callers : QueueSchedule(c)
    \/ DrainPop
    \/ DrainForward
    \/ ResetStart
    \/ ResetWait
    \/ ResetCancel
    \/ ResetTeardown

SpecReset == QueueSpecInit /\ [][ResetNext]_vars

-----------------------------------------------------------------------------
(* VLAN State Tracker: operations *)

\* errno values
EINVAL == 22
EACCES == 13
EAGAIN == 11
EADDRNOTAVAIL == 99

\* number of VLAN ids
VLAN_N_VID == 4096
\* the run length of a VLAN request sits above the VLAN id
FM10K_VLAN_LENGTH_SHIFT == 16
\* flag of rx_ring->vid: the default VLAN id is not to be used
FM10K_VLAN_CLEAR == 32768
\* VLAN id 0 with run length VLAN_N_VID - 1: every id
FM10K_VLAN_ALL == (VLAN_N_VID - 1) * (2 ^ FM10K_VLAN_LENGTH_SHIFT)

\* index of the last allocation of an operation that can be made to fail
MaxFailAt == 2
\* failAt = -1: no allocation fails; failAt = k: the allocation number k of the
\* operation (from 0) fails
FailPlans == (-1)..MaxFailAt

\* is_valid_ether_addr: not multicast, not all-zero
is_valid_ether_addr(addr) == addr # 0 /\ ~is_multicast_ether_addr(addr)

\* The request list as an operation works on it: list and w are
\* interface->macvlan_requests and the drain worker's state, next the label of
\* the next append, n the allocations made so far by the operation, failed the
\* enqueues that failed, enq the requests appended.
QState(list, w, next) ==
    [list |-> list, w |-> w, next |-> next, n |-> 0, failed |-> 0, enq |-> <<>>]

\* whether the next kzalloc of the operation succeeds
AllocOk(Q, failAt) == Q.n # failAt

\* the enqueue of fm10k_queue_vlan_request / fm10k_queue_mac_request as one
\* step: kzalloc, populate, list_add_tail under the lock, fm10k_macvlan_schedule
queue_request(Q, in, failAt) ==
    IF ~AllocOk(Q, failAt)
    THEN [Q EXCEPT !.n = @ + 1, !.failed = @ + 1]
    ELSE [Q EXCEPT !.list = list_add_tail(MakeRequest(in, Q.next), @),
                   !.w = fm10k_macvlan_schedule(@),
                   !.next = @ + 1,
                   !.n = @ + 1,
                   !.enq = Append(@, MakeRequest(in, Q.next))]

fm10k_queue_vlan_request(Q, vid, vsi, set, failAt) ==
    queue_request(Q, [fn |-> "vlan", glort |-> 0, addr |-> 0, vid |-> vid, set |-> set],
                  failAt)

fm10k_queue_mac_request(Q, glort, addr, vid, set, failAt) ==
    queue_request(Q, [fn |-> "mac", glort |-> glort, addr |-> addr, vid |-> vid,
                      set |-> set], failAt)

SetMin(S) == CHOOSE x \in S : \A y \in S : x <= y

\* find_next_bit(bits, size, offset): the first set bit at or after offset and
\* below size, size when there is none
find_next_bit(bits, size, offset) ==
    SetMin({b \in bits : offset <= b /\ b < size} \cup {size})

\* fm10k_find_next_vlan that never stops at the default VLAN id
fm10k_find_next_vlan_nodefault(I, vid) ==
    find_next_bit(I.active_vlans, VLAN_N_VID, vid + 1)

\* fm10k_find_next_vlan: the next active VLAN id after vid; the walk also
\* stops at the default VLAN id
fm10k_find_next_vlan(I, vid) ==
    find_next_bit(I.active_vlans,
                  IF vid < I.default_vid THEN I.default_vid ELSE VLAN_N_VID,
                  vid + 1)

\* the loop with the run length itself in the offset field
RECURSIVE ClearUnusedLoop_len(_, _, _, _, _)
ClearUnusedLoop_len(I, Q, vid, prev_vid, failAt) ==
    IF prev_vid >= VLAN_N_VID
    THEN Q
    ELSE One({ ClearUnusedLoop_len(I, Q1, fm10k_find_next_vlan(I, vid), vid + 1, failAt)
               : Q1 \in { IF prev_vid = vid
                          THEN Q
                          ELSE fm10k_queue_vlan_request(
                                   Q,
                                   prev_vid + (vid - prev_vid)
                                                * (2 ^ FM10K_VLAN_LENGTH_SHIFT),
                                   0, FALSE, failAt) } })

\* for (vid = 0, prev_vid = 0; prev_vid < VLAN_N_VID;
\*      prev_vid = vid + 1, vid = fm10k_find_next_vlan(interface, vid))
RECURSIVE ClearUnusedLoop(_, _, _, _, _)
ClearUnusedLoop(I, Q, vid, prev_vid, failAt) ==
    IF prev_vid >= VLAN_N_VID
    THEN Q
    ELSE One({ ClearUnusedLoop(I, Q1, fm10k_find_next_vlan(I, vid), vid + 1, failAt)
               : Q1 \in { IF prev_vid = vid
                          THEN Q
                          ELSE \* clear multiple bits at a time
                               fm10k_queue_vlan_request(
                                   Q,
                                   prev_vid + (vid - prev_vid - 1)
                                                * (2 ^ FM10K_VLAN_LENGTH_SHIFT),
                                   0, FALSE, failAt) } })

\* fm10k_clear_unused_vlans: the results of the enqueues are not looked at
fm10k_clear_unused_vlans(I, Q, failAt) == ClearUnusedLoop(I, Q, 0, 0, failAt)

\* for (vid = fm10k_find_next_vlan(interface, 0); vid < VLAN_N_VID;
\*      vid = fm10k_find_next_vlan(interface, vid)) of __fm10k_uc_sync and
\* __fm10k_mc_sync: stops at the first enqueue that fails
RECURSIVE SyncLoop(_, _, _, _, _, _)
SyncLoop(I, Q, addr, vid, sync, failAt) ==
    IF vid >= VLAN_N_VID
    THEN [q |-> Q, ret |-> 0]
    ELSE IF ~AllocOk(Q, failAt)
    THEN [q |-> fm10k_queue_mac_request(Q, I.glort, addr, vid, sync, failAt),
          ret |-> -ENOMEM]
    ELSE One({ SyncLoop(I, Q1, addr, fm10k_find_next_vlan(I, vid), sync, failAt)
               : Q1 \in {fm10k_queue_mac_request(Q, I.glort, addr, vid, sync, failAt)} })

\* __fm10k_uc_sync that stops after the first VLAN
__fm10k_uc_sync_first(I, Q, addr, sync, failAt) ==
    IF ~is_valid_ether_addr(addr)
    THEN [q |-> Q, ret |-> -EADDRNOTAVAIL]
    ELSE IF fm10k_find_next_vlan(I, 0) >= VLAN_N_VID
    THEN [q |-> Q, ret |-> 0]
    ELSE [q |-> fm10k_queue_mac_request(Q, I.glort, addr, fm10k_find_next_vlan(I, 0),
                                        sync, failAt),
          ret |-> IF AllocOk(Q, failAt) THEN 0 ELSE -ENOMEM]

__fm10k_uc_sync(I, Q, addr, sync, failAt) ==
    IF ~is_valid_ether_addr(addr)
    THEN [q |-> Q, ret |-> -EADDRNOTAVAIL]
    ELSE SyncLoop(I, Q, addr, fm10k_find_next_vlan(I, 0), sync, failAt)

__fm10k_mc_sync(I, Q, addr, sync, failAt) ==
    IF ~is_multicast_ether_addr(addr)
    THEN [q |-> Q, ret |-> -EADDRNOTAVAIL]
    ELSE SyncLoop(I, Q, addr, fm10k_find_next_vlan(I, 0), sync, failAt)

\* An address list of the net device (dev->uc, dev->mc): a sequence of entries
\* [addr, synced].  __dev_uc_sync / __dev_mc_sync call sync for the entries not
\* yet synchronised, mark those it accepts, and stop at the first error.
RECURSIVE DevSync(_, _, _, _, _, _)
DevSync(I, Q, list, k, mc, failAt) ==
    IF k > Len(list)
    THEN [q |-> Q, list |-> list]
    ELSE IF list[k].synced
    THEN DevSync(I, Q, list, k + 1, mc, failAt)
    ELSE One({ IF r.ret # 0
               THEN [q |-> r.q, list |-> list]
               ELSE DevSync(I, r.q, [list EXCEPT ![k].synced = TRUE], k + 1, mc, failAt)
               : r \in { IF mc THEN __fm10k_mc_sync(I, Q, list[k].addr, TRUE, failAt)
                         ELSE __fm10k_uc_sync(I, Q, list[k].addr, TRUE, failAt) } })

\* fm10k_uc_vlan_unsync / fm10k_mc_vlan_unsync for every synchronised entry,
\* as __dev_uc_unsync / __dev_mc_unsync call them: the value they return (the
\* error of the enqueue, else 1) only keeps the entry marked
RECURSIVE DevVlanUnsync(_, _, _, _, _)
DevVlanUnsync(I, Q, list, k, failAt) ==
    IF k > Len(list)
    THEN Q
    ELSE IF ~list[k].synced
    THEN DevVlanUnsync(I, Q, list, k + 1, failAt)
    ELSE One({ DevVlanUnsync(I, Q1, list, k + 1, failAt)
               : Q1 \in { fm10k_queue_mac_request(Q, I.glort, list[k].addr,
                                                  I.vid % VLAN_N_VID,
                                                  (I.vid \div VLAN_N_VID) # 0,
                                                  failAt) } })

\* the outcome of an operation of the tracker
VlanResult(I, Q, ret, ev) == [intf |-> I, q |-> Q, ret |-> ret, ev |-> ev]

\* a loop that leaves the rings as they are
UpdateRxVid_keep(rx_vid, active) == rx_vid

\* the loop of fm10k_update_vid over the receive rings
UpdateRxVid(rx_vid, active) ==
    [q \in DOMAIN rx_vid |->
        IF (rx_vid[q] % VLAN_N_VID) \in active
        THEN (rx_vid[q] % FM10K_VLAN_CLEAR) + FM10K_VLAN_CLEAR
        ELSE rx_vid[q] % FM10K_VLAN_CLEAR]

\* the requests of fm10k_update_vid with the working VLAN value set first
UpdateVidQueue_early(I, Q, vid, set, failAt) ==
    One({ VlanResult([I EXCEPT !.vid = vid + (IF set THEN VLAN_N_VID ELSE 0)], Q2,
                     IF Q2.failed > Q.failed THEN -ENOMEM ELSE 0, <<>>)
          : Q2 \in { fm10k_queue_mac_request(
                         IF ~(("PROMISC" \in I.flags) \/ I.ies) \/ I.vf
                         THEN fm10k_queue_vlan_request(Q, vid, 0, set, failAt)
                         ELSE Q,
                         I.glort, I.mac_addr, vid, set, failAt) } })

\* fm10k_update_vid from the mailbox lock on; I is the interface with the
\* bitmap and the rings already updated
UpdateVidQueue(I, Q, vid, set, failAt) ==
    One({ IF Q1.failed > Q.failed
          THEN VlanResult(I, Q1, -ENOMEM, <<>>)      \* goto err_out
          ELSE One({ IF Q2.failed > Q1.failed
                     THEN VlanResult(I, Q2, -ENOMEM, <<>>)   \* goto err_out
                     ELSE One({ VlanResult(I2, DevVlanUnsync(I2, Q3, I2.mc, 1, failAt),
                                           0, <<>>)
                                : I2 \in {[I EXCEPT !.vid = vid + (IF set THEN VLAN_N_VID
                                                                   ELSE 0)]},
                                  Q3 \in {DevVlanUnsync(
                                              [I EXCEPT !.vid = vid + (IF set THEN VLAN_N_VID
                                                                       ELSE 0)],
                                              Q2, I.uc, 1, failAt)} })
                     : Q2 \in {fm10k_queue_mac_request(Q1, I.glort, I.mac_addr, vid, set,
                                                       failAt)} })
          : Q1 \in { IF ~(("PROMISC" \in I.flags) \/ I.ies) \/ I.vf
                     THEN fm10k_queue_vlan_request(Q, vid, 0, set, failAt)
                     ELSE Q } })

\* fm10k_update_vid that turns VLAN 0 away like the ids that are too large
fm10k_update_vid_zero_einval(I, Q, vid, set, failAt) ==
    IF vid = 0 \/ vid >= VLAN_N_VID
    THEN VlanResult(I, Q, -EINVAL, <<>>)
    ELSE VlanResult([I EXCEPT !.active_vlans = IF set THEN @ \cup {vid} ELSE @ \ {vid}],
                    Q, 0, <<>>)

\* fm10k_update_vid that tests the permission after the bitmap update
fm10k_update_vid_late_check(I, Q, vid, set, failAt) ==
    IF vid = 0
    THEN VlanResult(I, Q, 0, <<>>)
    ELSE IF vid >= VLAN_N_VID
    THEN VlanResult(I, Q, -EINVAL, <<>>)
    ELSE VlanResult([I EXCEPT !.active_vlans = IF set THEN @ \cup {vid} ELSE @ \ {vid}],
                    Q, IF set /\ I.vlan_override THEN -EACCES ELSE 0, <<>>)

\* fm10k_update_vid that looks at __FM10K_DOWN before it touches the bitmap
fm10k_update_vid_downfirst(I, Q, vid, set, failAt) ==
    IF vid = 0
    THEN VlanResult(I, Q, 0, <<>>)
    ELSE IF vid >= VLAN_N_VID
    THEN VlanResult(I, Q, -EINVAL, <<>>)
    ELSE IF set /\ I.vlan_override
    THEN VlanResult(I, Q, -EACCES, <<>>)
    ELSE IF I.down
    THEN VlanResult(I, Q, 0, <<>>)
    ELSE VlanResult([I EXCEPT
                       !.active_vlans = IF set THEN @ \cup {vid} ELSE @ \ {vid},
                       !.rx_vid = UpdateRxVid(@, IF set THEN I.active_vlans \cup {vid}
                                                 ELSE I.active_vlans \ {vid})],
                    Q, 0, <<>>)

\* fm10k_update_vid that sends its requests also when the interface is down
fm10k_update_vid_ignoredown(I, Q, vid, set, failAt) ==
    IF vid = 0
    THEN VlanResult(I, Q, 0, <<>>)
    ELSE IF vid >= VLAN_N_VID
    THEN VlanResult(I, Q, -EINVAL, <<>>)
    ELSE IF set /\ I.vlan_override
    THEN VlanResult(I, Q, -EACCES, <<>>)
    ELSE One({ IF I.vlan_override
               THEN VlanResult(I1, Q, 0, <<>>)
               ELSE IF ~set /\ vid = I.default_vid
               THEN VlanResult(I1, Q, 0, <<>>)
               ELSE UpdateVidQueue(I1, Q, vid, set, failAt)
               : I1 \in { [I EXCEPT
                             !.active_vlans = IF set THEN @ \cup {vid} ELSE @ \ {vid},
                             !.rx_vid = UpdateRxVid(@, IF set THEN I.active_vlans \cup {vid}
                                                       ELSE I.active_vlans \ {vid})] } })

\* fm10k_update_vid(netdev, vid, set)
fm10k_update_vid(I, Q, vid, set, failAt) ==
    IF vid = 0
    THEN \* updates do not apply to VLAN 0
         VlanResult(I, Q, 0, <<>>)
    ELSE IF vid >= VLAN_N_VID
    THEN VlanResult(I, Q, -EINVAL, <<>>)
    ELSE IF set /\ I.vlan_override
    THEN VlanResult(I, Q, -EACCES, <<>>)
    ELSE One({ IF I.vlan_override
               THEN VlanResult(I1, Q, 0, <<>>)
               ELSE IF ~set /\ vid = I.default_vid
               THEN VlanResult(I1, Q, 0, <<>>)
               ELSE IF I.down
               THEN VlanResult(I1, Q, 0, <<>>)
               ELSE UpdateVidQueue(I1, Q, vid, set, failAt)
               : I1 \in { [I EXCEPT
                             !.active_vlans = IF set THEN @ \cup {vid} ELSE @ \ {vid},
                             !.rx_vid = UpdateRxVid(@, IF set THEN I.active_vlans \cup {vid}
                                                       ELSE I.active_vlans \ {vid})] } })

\* the mode derived from dev->flags with IFF_ALLMULTI looked at first
XcastMode_allmulti(flags) ==
    IF "ALLMULTI" \in flags THEN "ALLMULTI"
    ELSE IF "PROMISC" \in flags THEN "PROMISC"
    ELSE IF "BROADCAST" \in flags \/ "MULTICAST" \in flags THEN "MULTI"
    ELSE "NONE"

\* the mode fm10k_set_rx_mode derives from dev->flags
XcastMode(flags) ==
    IF "PROMISC" \in flags THEN "PROMISC"
    ELSE IF "ALLMULTI" \in flags THEN "ALLMULTI"
    ELSE IF "BROADCAST" \in flags \/ "MULTICAST" \in flags THEN "MULTI"
    ELSE "NONE"

\* readiness that looks at interface->host_ready only
fm10k_host_mbx_ready_pf(I, host_ready) == host_ready

\* fm10k_host_mbx_ready: a VF does not wait for the host
fm10k_host_mbx_ready(I, host_ready) == I.vf \/ host_ready

\* hw->mac.ops.update_xcast_mode(hw, glort, xcast_mode) as the mailbox sees it
XcastEv(glort, xcast_mode) ==
    [e |-> "update_xcast_mode", i |-> glort, mode |-> xcast_mode]

\* fm10k_set_rx_mode: the block run when the mode changed
SetRxModeChange(I, Q, xcast_mode, failAt) ==
    IF I.ies
    THEN Q
    ELSE One({ IF I.xcast_mode = "PROMISC"
               THEN fm10k_clear_unused_vlans(I, Q1, failAt)
               ELSE Q1
               : Q1 \in { IF xcast_mode = "PROMISC"
                          THEN fm10k_queue_vlan_request(Q, FM10K_VLAN_ALL, 0, TRUE, failAt)
                          ELSE Q } })

\* fm10k_set_rx_mode that sends the set-all request at every call in
\* promiscuous mode
fm10k_set_rx_mode_always(I, Q, host_ready, failAt) ==
    IF "UP" \notin I.flags
    THEN VlanResult(I, Q, 0, <<>>)
    ELSE VlanResult([I EXCEPT !.xcast_mode = XcastMode(I.flags)],
                    IF XcastMode(I.flags) = "PROMISC"
                    THEN fm10k_queue_vlan_request(Q, FM10K_VLAN_ALL, 0, TRUE, failAt)
                    ELSE Q,
                    0, <<>>)

\* fm10k_set_rx_mode(dev); it returns nothing: ret is 0
fm10k_set_rx_mode(I, Q, host_ready, failAt) ==
    IF "UP" \notin I.flags
    THEN VlanResult(I, Q, 0, <<>>)
    ELSE One({ One({ VlanResult([I EXCEPT !.xcast_mode = xcast_mode,
                                          !.uc = u.list, !.mc = m.list],
                                m.q, 0,
                                IF I.xcast_mode # xcast_mode
                                   /\ fm10k_host_mbx_ready(I, host_ready)
                                THEN <<XcastEv(I.glort, xcast_mode)>> ELSE <<>>)
                     : m \in {DevSync(I, u.q, I.mc, 1, TRUE, failAt)} })
               : xcast_mode \in {XcastMode(I.flags)},
                 u \in { DevSync(I,
                                 IF I.xcast_mode # XcastMode(I.flags)
                                 THEN SetRxModeChange(I, Q, XcastMode(I.flags), failAt)
                                 ELSE Q,
                                 I.uc, 1, FALSE, failAt) } })

\* fm10k_set_mac(dev, p) with addr the new address
fm10k_set_mac(I, Q, addr, failAt) ==
    IF ~is_valid_ether_addr(addr)
    THEN VlanResult(I, Q, -EADDRNOTAVAIL, <<>>)
    ELSE IF "UP" \notin I.flags
    THEN VlanResult([I EXCEPT !.mac_addr = addr], Q, 0, <<>>)
    ELSE One({ IF s.ret # 0
               THEN \* a mailbox error: suggest trying again
                    VlanResult(I, s.q, -EAGAIN, <<>>)
               ELSE \* the result of fm10k_uc_unsync is not looked at
                    VlanResult([I EXCEPT !.mac_addr = addr],
                               __fm10k_uc_sync(I, s.q, I.mac_addr, FALSE, failAt).q,
                               0, <<>>)
               : s \in {__fm10k_uc_sync(I, Q, addr, TRUE, failAt)} })

-----------------------------------------------------------------------------
(* Specification of the VLAN State Tracker *)

\* operations of the tracker in one run
MaxOps == 1

\* active-VLAN bitmaps the interface starts with (bit 0 is never set)
ActiveChoices == {{}, {2}, {1, 2, 5}, {2, 5, 4095}}
\* vid arguments of fm10k_update_vid (a u16)
VidInputs == {0, 2, 5, 4096, 65535}
\* dev->flags as the stack has set them
FlagChoices ==
    {{}, {"UP"}, {"UP", "BROADCAST"}, {"UP", "PROMISC", "ALLMULTI"},
     {"UP", "ALLMULTI", "MULTICAST"}}
\* new addresses of fm10k_set_mac: all-zero, the current address, multicast,
\* another unicast address
MacInputs == {0, 2, 3, 6}

VlanInit ==
    /\ tx_ring = [q \in {0} |-> TornDownRing(1)]
    /\ rx_ring = [q \in {0} |-> TornDownRing(1)]
    /\ zombie = FALSE
    /\ irq = FALSE
    /\ running = FALSE
    /\ last = LastNone
    /\ QueueInit
    /\ rst = ResetIdle
    /\ accel = NoAccel
    /\ rcu = RcuIdle
    /\ udp = UdpRest
    /\ \E active \in ActiveChoices, dvid \in {1, 5}, override \in BOOLEAN,
          ies \in BOOLEAN, flags \in FlagChoices, down \in BOOLEAN,
          xcast \in {"NONE", "PROMISC"}, vf \in BOOLEAN :
          /\ ("UP" \notin flags) => down
          /\ intf = [active_vlans |-> active, xcast_mode |-> xcast, flags |-> flags,
                     vid |-> 0, vlan_override |-> override, default_vid |-> dvid,
                     down |-> down, ies |-> ies, vf |-> vf, glort |-> 1,
                     mac_addr |-> 2,
                     rx_vid |-> UpdateRxVid(<<dvid>>, active),
                     uc |-> <<[addr |-> 4, synced |-> FALSE]>>,
                     mc |-> <<[addr |-> 3, synced |-> TRUE]>>,
                     ops |-> 0]

\* the part of an action common to the operations of the tracker: r is the
\* outcome of the operation
VlanApply(op, in, r) ==
    /\ intf' = [r.intf EXCEPT !.ops = @ + 1]
    /\ macvlan_requests' = r.q.list
    /\ worker' = r.q.w
    /\ next_id' = r.q.next
    /\ appended' = appended \o Ids(r.q.enq)
    /\ last' = Last(op, in, r.ret,
                    [enq |-> r.q.enq, failed |-> r.q.failed, mbx |-> r.ev], FALSE,
                    [intf |-> intf, list |-> macvlan_requests])
    /\ UNCHANGED <<caller, mbx, cancelled, ringVars, rst, accel, rcu, udp>>

UpdateVid ==
    /\ intf.ops < MaxOps
    /\ \E vid \in VidInputs, set \in BOOLEAN, failAt \in FailPlans :
          \E r \in {fm10k_update_vid(intf, QState(macvlan_requests, worker, next_id),
                                     vid, set, failAt)} :
             VlanApply("update_vid", [vid |-> vid, set |-> set, failAt |-> failAt], r)

SetRxMode ==
    /\ intf.ops < MaxOps
    /\ \E ready \in BOOLEAN, failAt \in FailPlans :
          \E r \in {fm10k_set_rx_mode(intf, QState(macvlan_requests, worker, next_id),
                                      ready, failAt)} :
             VlanApply("set_rx_mode", [ready |-> ready, failAt |-> failAt], r)

SetMac ==
    /\ intf.ops < MaxOps
    /\ \E addr \in MacInputs, failAt \in FailPlans :
          \E r \in {fm10k_set_mac(intf, QState(macvlan_requests, worker, next_id),
                                  addr, failAt)} :
             VlanApply("set_mac", [addr |-> addr, failAt |-> failAt], r)

\* fm10k_uc_sync, fm10k_uc_unsync, fm10k_mc_sync or fm10k_mc_unsync called by
\* the stack for one address
AddrSync ==
    /\ intf.ops < MaxOps
    /\ \E mc \in BOOLEAN, addr \in MacInputs, sync \in BOOLEAN, failAt \in FailPlans :
          \E s \in { IF mc
                     THEN __fm10k_mc_sync(intf, QState(macvlan_requests, worker, next_id),
                                          addr, sync, failAt)
                     ELSE __fm10k_uc_sync(intf, QState(macvlan_requests, worker, next_id),
                                          addr, sync, failAt) } :
             VlanApply("addr_sync",
                       [mc |-> mc, addr |-> addr, sync |-> sync, failAt |-> failAt],
                       VlanResult(intf, s.q, s.ret, <<>>))

VlanNext ==
    \/ UpdateVid
    \/ SetRxMode
    \/ SetMac

SpecVlan == VlanInit /\ [][VlanNext]_vars

\* the address lists of the device synchronised by the stack, one callback
\* per address
SyncNext ==
    \/ AddrSync

SpecSync == VlanInit /\ [][SyncNext]_vars

-----------------------------------------------------------------------------
(* Forwarding-Acceleration Table *)

EBUSY == 16

\* slots of the table the first station allocates
L2AccelInitSize == 7
\* the most stations a table holds
FM10K_MAX_STATIONS == 63

\* fls(x): position of the last set bit, 0 for 0
RECURSIVE fls(_)
fls(x) == IF x = 0 THEN 0 ELSE 1 + fls(x \div 2)

\* kzalloc of a struct fm10k_l2_accel with n slots: every field zero; slot i
\* of the code is macvlan[i + 1], 0 is NULL
ZeroTable(n) == [size |-> 0, count |-> 0, dglort |-> 0, macvlan |-> [k \in 1..n |-> 0]]

\* sdev->dev_addr of station sdev: a unicast address
StationAddr(sdev) == 2 * sdev + 6

\* fm10k_assign_l2_accel: the rings' references, then the interface's
fm10k_assign_l2_accel(A, l2_accel) == [A EXCEPT !.ring = l2_accel, !.l2_accel = l2_accel]

\* the table interface->l2_accel points to
CurTable(A) == A.tables[A.l2_accel]

\* the outcome of fm10k_dfwd_add_station / fm10k_dfwd_del_station: ret is the
\* station on success, a negative errno for ERR_PTR; slot the slot written;
\* fault an access past the end of the table
AccelResult(A, Q, ret, slot, ev, fault) ==
    [accel |-> A, q |-> Q, ret |-> ret, slot |-> slot, ev |-> ev, fault |-> fault]

\* the last index i in 0..size-1 with macvlan[i] == match, size if there is none
FindSlot_last(t, match) ==
    IF \E i \in 0..(t.size - 1) : t.macvlan[i + 1] = match
    THEN CHOOSE i \in 0..(t.size - 1) :
            /\ t.macvlan[i + 1] = match
            /\ \A j \in (i + 1)..(t.size - 1) : t.macvlan[j + 1] # match
    ELSE t.size

\* first index i in 0..size-1 with macvlan[i] == match, size if there is none
FindSlot(t, match) ==
    SetMin({i \in 0..(t.size - 1) : t.macvlan[i + 1] = match} \cup {t.size})

\* fm10k_dfwd_add_station from "add macvlan to accel table" on; A has the
\* table to use in place
AddStationRecord(A, Q, I, sdev, failAt) ==
    One({ IF i >= Len(t.macvlan)
          THEN AccelResult(A, Q, sdev, i, <<>>, TRUE)
          ELSE AccelResult(
                   [A EXCEPT !.tables[A.l2_accel].macvlan[i + 1] = sdev,
                             !.tables[A.l2_accel].count = @ + 1,
                             !.adds = @ + 1],
                   IF A.ready
                   THEN fm10k_queue_mac_request(Q, t.dglort + 1 + i, StationAddr(sdev),
                                                I.default_vid, TRUE, failAt)
                   ELSE Q,
                   sdev, i,
                   <<Ev("configure_dglort_map", fls(t.size))>>
                       \o (IF A.ready THEN <<Ev("update_xcast_mode", t.dglort + 1 + i)>>
                           ELSE <<>>),
                   FALSE)
          : t \in {CurTable(A)}, i \in {FindSlot(CurTable(A), 0)} })

\* the expansion that leaves the old stations behind
GrowTable_nocopy(A, I) ==
    [fm10k_assign_l2_accel(
         [A EXCEPT !.tables =
             Append(@, [ZeroTable((CurTable(A).size * 2) + 1)
                        EXCEPT !.size = (CurTable(A).size * 2) + 1,
                               !.count = CurTable(A).count,
                               !.dglort = CurTable(A).dglort])],
         Len(A.tables) + 1)
     EXCEPT !.retired = @ \cup {A.l2_accel}]

\* the expansion of fm10k_dfwd_add_station: a table of 2 * size + 1 slots, the
\* header and the slots of the old one copied into it, the old one retired
GrowTable(A, I) ==
    One({ [fm10k_assign_l2_accel(
               [A EXCEPT !.tables =
                   Append(@, [size |-> (old.size * 2) + 1,
                              count |-> old.count,
                              dglort |-> old.dglort,
                              macvlan |-> [k \in 1..((old.size * 2) + 1) |->
                                              IF k <= old.size THEN old.macvlan[k]
                                              ELSE 0]])],
               Len(A.tables) + 1)
           EXCEPT !.retired = @ \cup {A.l2_accel}]
          : old \in {CurTable(A)} })

\* fm10k_dfwd_add_station that gives up the old table before it has the new one
fm10k_dfwd_add_station_drop(A, Q, I, sdev, allocOk, failAt) ==
    IF A.l2_accel = 0
    THEN IF A.glort_count < L2AccelInitSize
         THEN AccelResult(A, Q, -EBUSY, 0, <<>>, FALSE)
         ELSE IF ~allocOk
         THEN AccelResult(A, Q, -ENOMEM, 0, <<>>, FALSE)
         ELSE AddStationRecord(
                  fm10k_assign_l2_accel(
                      [A EXCEPT !.tables =
                          Append(@, [ZeroTable(L2AccelInitSize)
                                     EXCEPT !.size = L2AccelInitSize,
                                            !.dglort = I.glort])],
                      Len(A.tables) + 1),
                  Q, I, sdev, failAt)
    ELSE IF \/ CurTable(A).count = FM10K_MAX_STATIONS
            \/ CurTable(A).count = A.glort_count - 1
    THEN AccelResult(A, Q, -EBUSY, 0, <<>>, FALSE)
    ELSE IF CurTable(A).count = CurTable(A).size
    THEN IF ~allocOk
         THEN AccelResult([fm10k_assign_l2_accel(A, 0) EXCEPT !.retired = @ \cup {A.l2_accel}],
                          Q, -ENOMEM, 0, <<>>, FALSE)
         ELSE AddStationRecord(GrowTable(A, I), Q, I, sdev, failAt)
    ELSE AddStationRecord(A, Q, I, sdev, failAt)

\* fm10k_dfwd_add_station(dev, sdev); allocOk: the kzalloc of a table succeeds
fm10k_dfwd_add_station(A, Q, I, sdev, allocOk, failAt) ==
    IF A.l2_accel = 0
    THEN \* allocate l2 accel structure if it is not available
         IF A.glort_count < L2AccelInitSize
         THEN AccelResult(A, Q, -EBUSY, 0, <<>>, FALSE)
         ELSE IF ~allocOk
         THEN AccelResult(A, Q, -ENOMEM, 0, <<>>, FALSE)
         ELSE AddStationRecord(
                  fm10k_assign_l2_accel(
                      [A EXCEPT !.tables =
                          Append(@, [ZeroTable(L2AccelInitSize)
                                     EXCEPT !.size = L2AccelInitSize,
                                            !.dglort = I.glort])],
                      Len(A.tables) + 1),
                  Q, I, sdev, failAt)
    ELSE IF \/ CurTable(A).count = FM10K_MAX_STATIONS
            \/ CurTable(A).count = A.glort_count - 1
    THEN \* do not expand if we are at our limit
         AccelResult(A, Q, -EBUSY, 0, <<>>, FALSE)
    ELSE IF CurTable(A).count = CurTable(A).size
    THEN \* expand if we have hit the size limit
         IF ~allocOk
         THEN AccelResult(A, Q, -ENOMEM, 0, <<>>, FALSE)
         ELSE AddStationRecord(GrowTable(A, I), Q, I, sdev, failAt)
    ELSE AddStationRecord(A, Q, I, sdev, failAt)

\* fm10k_dfwd_del_station that keeps the table when its last station leaves
RemoveIfEmpty_keep(A) == A

\* the end of fm10k_dfwd_del_station: if table is empty remove it
RemoveIfEmpty(A) ==
    IF CurTable(A).count = 0
    THEN [fm10k_assign_l2_accel(A, 0) EXCEPT !.retired = @ \cup {A.l2_accel}]
    ELSE A

\* fm10k_dfwd_del_station that takes dglort + i for the station's glort
fm10k_dfwd_del_station_base(A, Q, I, sdev, failAt) ==
    IF A.l2_accel = 0
    THEN AccelResult(A, Q, 0, 0, <<>>, FALSE)
    ELSE One({ IF i = t.size
               THEN AccelResult(A, Q, 0, i, <<>>, FALSE)
               ELSE AccelResult(
                        RemoveIfEmpty([A EXCEPT !.tables[A.l2_accel].macvlan[i + 1] = 0,
                                                !.tables[A.l2_accel].count = @ - 1]),
                        IF A.ready
                        THEN fm10k_queue_mac_request(Q, t.dglort + i, StationAddr(sdev),
                                                     I.default_vid, FALSE, failAt)
                        ELSE Q,
                        0, i,
                        (IF A.ready THEN <<Ev("update_xcast_mode", t.dglort + i)>>
                         ELSE <<>>)
                            \o <<Ev("configure_dglort_map", fls(t.size))>>,
                        FALSE)
               : t \in {CurTable(A)}, i \in {FindSlot(CurTable(A), sdev)} })

\* fm10k_dfwd_del_station(dev, priv)
fm10k_dfwd_del_station(A, Q, I, sdev, failAt) ==
    IF A.l2_accel = 0
    THEN AccelResult(A, Q, 0, 0, <<>>, FALSE)
    ELSE One({ IF i = t.size
               THEN \* exit if macvlan not found
                    AccelResult(A, Q, 0, i, <<>>, FALSE)
               ELSE AccelResult(
                        RemoveIfEmpty([A EXCEPT !.tables[A.l2_accel].macvlan[i + 1] = 0,
                                                !.tables[A.l2_accel].count = @ - 1]),
                        IF A.ready
                        THEN fm10k_queue_mac_request(Q, t.dglort + 1 + i, StationAddr(sdev),
                                                     I.default_vid, FALSE, failAt)
                        ELSE Q,
                        0, i,
                        (IF A.ready THEN <<Ev("update_xcast_mode", t.dglort + 1 + i)>>
                         ELSE <<>>)
                            \o <<Ev("configure_dglort_map", fls(t.size))>>,
                        FALSE)
               : t \in {CurTable(A)}, i \in {FindSlot(CurTable(A), sdev)} })

\* the stations a table holds at the start are numbered from PrefillBase + 1
PrefillBase == 100

\* the sizes of the tables allocated until n stations fit
RECURSIVE PrefillSizes(_, _)
PrefillSizes(n, size) ==
    IF n <= size THEN <<size>> ELSE <<size>> \o PrefillSizes(n, (size * 2) + 1)

\* the forwarding table as n calls of fm10k_dfwd_add_station leave it, for the
\* stations PrefillBase + 1 .. PrefillBase + n and a mailbox that is not ready:
\* every table but the last was full when it was retired
Prefilled(A, I, n) ==
    IF n = 0
    THEN A
    ELSE One({ [A EXCEPT
                  !.tables = [j \in 1..Len(sizes) |->
                                 [size |-> sizes[j],
                                  count |-> IF j < Len(sizes) THEN sizes[j] ELSE n,
                                  dglort |-> I.glort,
                                  macvlan |-> [k \in 1..sizes[j] |->
                                                  IF k <= n THEN PrefillBase + k ELSE 0]]],
                  !.l2_accel = Len(sizes),
                  !.ring = Len(sizes),
                  !.retired = 1..(Len(sizes) - 1),
                  !.adds = n]
               : sizes \in {PrefillSizes(n, L2AccelInitSize)} })

-----------------------------------------------------------------------------
(* Specification of the Forwarding-Acceleration Table *)

\* stations added in one run
MaxAdds == 9
\* calls of fm10k_dfwd_del_station in one run
MaxDels == 2
\* request allocations that fail in one run
MaxEnqFails == 1

\* failAt = 0: the kzalloc of the station's MAC request fails
AccelFailPlans == IF accel.fails < MaxEnqFails THEN {-1, 0} ELSE {-1}

\* interface->glort_count: too few identifiers for a table, room for 7
\* stations, for 15, for more than FM10K_MAX_STATIONS
GlortCounts == {6, 8, 16, 128}
\* the stations fm10k_dfwd_del_station is called for; 200 is never added
DelTargets == {1, 3, 200}
\* stations the table holds at the start
Prefills == {0, FM10K_MAX_STATIONS - 1}

AccelInit ==
    /\ tx_ring = [q \in {0} |-> TornDownRing(1)]
    /\ rx_ring = [q \in {0} |-> TornDownRing(1)]
    /\ zombie = FALSE
    /\ irq = FALSE
    /\ running = FALSE
    /\ last = LastNone
    /\ QueueInit
    /\ rst = ResetIdle
    /\ intf = IntfRest
    /\ rcu = RcuIdle
    /\ udp = UdpRest
    /\ \E gc \in GlortCounts, ready \in BOOLEAN, n \in Prefills :
          /\ n < gc - 1
          /\ accel = [Prefilled([NoAccel EXCEPT !.glort_count = gc], IntfRest, n)
                      EXCEPT !.ready = ready, !.adds = 0]

\* the part of an action common to the two operations: r is the outcome
AccelApply(op, in, r) ==
    /\ accel' = [r.accel EXCEPT !.fails = @ + r.q.failed]
    /\ macvlan_requests' = r.q.list
    /\ worker' = r.q.w
    /\ next_id' = r.q.next
    /\ appended' = appended \o Ids(r.q.enq)
    /\ last' = Last(op, in, r.ret,
                    [enq |-> r.q.enq, failed |-> r.q.failed, mbx |-> r.ev, slot |-> r.slot],
                    r.fault,
                    [accel |-> accel, list |-> macvlan_requests])
    /\ UNCHANGED <<caller, mbx, cancelled, ringVars, rst, intf, rcu, udp>>

\* the stations are numbered in the order they are added
AddStation ==
    /\ accel.adds < MaxAdds
    /\ \E allocOk \in BOOLEAN, failAt \in AccelFailPlans :
          \E r \in {fm10k_dfwd_add_station(accel,
                                           QState(macvlan_requests, worker, next_id),
                                           intf, accel.adds + 1, allocOk, failAt)} :
             AccelApply("add_station",
                        [sdev |-> accel.adds + 1, allocOk |-> allocOk, failAt |-> failAt], r)

DelStation ==
    /\ accel.dels < MaxDels
    /\ \E sdev \in DelTargets, failAt \in AccelFailPlans :
          \E r \in {fm10k_dfwd_del_station(accel,
                                           QState(macvlan_requests, worker, next_id),
                                           intf, sdev, failAt)} :
             AccelApply("del_station", [sdev |-> sdev, failAt |-> failAt],
                        [r EXCEPT !.accel.dels = @ + 1])

AccelNext ==
    \/ AddStation
    \/ DelStation

SpecAccel == AccelInit /\ [][AccelNext]_vars

-----------------------------------------------------------------------------
(* The forwarding table under concurrent readers: fm10k_dfwd_add_station and *)
(* fm10k_dfwd_del_station statement by statement, the receive path loading   *)
(* ring->l2_accel inside a read-side section, and the grace periods          *)

\* station calls in one run
MaxRcuOps == 2

\* stations in the table at the start: none, one, a full first table
RcuPrefills == {0, 1, L2AccelInitSize}
\* the stations fm10k_dfwd_del_station is called for
RcuDelTargets == {PrefillBase + 1, PrefillBase + 2}

\* kfree in the place of kfree_rcu: no reader is waited for
kfree_rcu_nowait(R, t) == {}

\* kfree_rcu(t, rcu): the grace period of t waits for the readers that are in
\* their read-side section now
kfree_rcu(R, t) == {<<t, r>> : r \in {x \in Readers : R.rd[x].pc # "idle"}}

RcuInit ==
    /\ tx_ring = [q \in {0} |-> TornDownRing(1)]
    /\ rx_ring = [q \in {0} |-> TornDownRing(1)]
    /\ zombie = FALSE
    /\ irq = FALSE
    /\ running = FALSE
    /\ last = LastNone
    /\ QueueInit
    /\ rst = ResetIdle
    /\ intf = IntfRest
    /\ rcu = RcuIdle
    /\ udp = UdpRest
    /\ \E ready \in BOOLEAN, n \in RcuPrefills :
          accel = [Prefilled([NoAccel EXCEPT !.glort_count = 16], IntfRest, n)
                   EXCEPT !.ready = ready, !.adds = 0]

RcuFrame == UNCHANGED <<ringVars, last, caller, mbx, cancelled, rst, intf, udp>>
RcuQueueFrame == UNCHANGED <<macvlan_requests, worker, next_id, appended>>

\* the call returns
WriterReturn == [rcu EXCEPT !.w = WriterIdle]

\* fm10k_dfwd_add_station up to the allocation of a table
AddEnter ==
    /\ rcu.w.pc = "idle" /\ rcu.ops < MaxRcuOps
    /\ \E allocOk \in BOOLEAN :
          LET w == [WriterIdle EXCEPT !.op = "add", !.sdev = accel.adds + 1] IN
          IF accel.l2_accel = 0
          THEN IF accel.glort_count < L2AccelInitSize \/ ~allocOk
               THEN /\ rcu' = [rcu EXCEPT !.ops = @ + 1]
                    /\ UNCHANGED accel
               ELSE /\ accel' = [accel EXCEPT !.tables = Append(@, ZeroTable(L2AccelInitSize))]
                    /\ rcu' = [rcu EXCEPT !.ops = @ + 1,
                                          !.w = [w EXCEPT !.pc = "init",
                                                          !.new = Len(accel.tables) + 1]]
          ELSE IF \/ CurTable(accel).count = FM10K_MAX_STATIONS
                  \/ CurTable(accel).count = accel.glort_count - 1
          THEN /\ rcu' = [rcu EXCEPT !.ops = @ + 1]
               /\ UNCHANGED accel
          ELSE IF CurTable(accel).count = CurTable(accel).size
          THEN IF ~allocOk
               THEN /\ rcu' = [rcu EXCEPT !.ops = @ + 1]
                    /\ UNCHANGED accel
               ELSE /\ accel' = [accel EXCEPT !.tables =
                                    Append(@, ZeroTable((CurTable(accel).size * 2) + 1))]
                    /\ rcu' = [rcu EXCEPT !.ops = @ + 1,
                                          !.w = [w EXCEPT !.pc = "memcpy",
                                                          !.new = Len(accel.tables) + 1,
                                                          !.old = accel.l2_accel]]
          ELSE /\ rcu' = [rcu EXCEPT !.ops = @ + 1, !.w = [w EXCEPT !.pc = "record"]]
               /\ UNCHANGED accel
    /\ RcuFrame /\ RcuQueueFrame

\* l2_accel->size = 7; l2_accel->dglort = interface->glort
AddInit ==
    /\ rcu.w.pc = "init"
    /\ accel' = [accel EXCEPT !.tables[rcu.w.new].size = L2AccelInitSize,
                              !.tables[rcu.w.new].dglort = intf.glort]
    /\ rcu' = [rcu EXCEPT !.w.pc = "assign_ring"]
    /\ RcuFrame /\ RcuQueueFrame

\* memcpy(l2_accel, old_l2_accel, offsetof(struct fm10k_l2_accel,
\* macvlan[old_l2_accel->size]))
AddMemcpy ==
    /\ rcu.w.pc = "memcpy"
    /\ LET old == accel.tables[rcu.w.old] IN
       accel' = [accel EXCEPT !.tables[rcu.w.new] =
                    [size |-> old.size, count |-> old.count, dglort |-> old.dglort,
                     macvlan |-> [k \in 1..Len(@.macvlan) |->
                                     IF k <= old.size THEN old.macvlan[k]
                                     ELSE @.macvlan[k]]]]
    /\ rcu' = [rcu EXCEPT !.w.pc = "set_size"]
    /\ RcuFrame /\ RcuQueueFrame

\* l2_accel->size = (old_l2_accel->size * 2) + 1
AddSetSize ==
    /\ rcu.w.pc = "set_size"
    /\ accel' = [accel EXCEPT !.tables[rcu.w.new].size =
                                  (accel.tables[rcu.w.old].size * 2) + 1]
    /\ rcu' = [rcu EXCEPT !.w.pc = "assign_ring"]
    /\ RcuFrame /\ RcuQueueFrame

\* fm10k_assign_l2_accel: rcu_assign_pointer(ring->l2_accel, l2_accel)
AssignRing ==
    /\ rcu.w.pc = "assign_ring"
    /\ accel' = [accel EXCEPT !.ring = rcu.w.new]
    /\ rcu' = [rcu EXCEPT !.w.pc = "assign_intf"]
    /\ RcuFrame /\ RcuQueueFrame

\* fm10k_assign_l2_accel: interface->l2_accel = l2_accel
AssignIntf ==
    /\ rcu.w.pc = "assign_intf"
    /\ accel' = [accel EXCEPT !.l2_accel = rcu.w.new]
    /\ rcu' = [rcu EXCEPT !.w.pc = IF rcu.w.old # 0 THEN "kfree_rcu" ELSE "record"]
    /\ RcuFrame /\ RcuQueueFrame

\* kfree_rcu(old_l2_accel, rcu) of fm10k_dfwd_add_station, kfree_rcu(l2_accel,
\* rcu) of fm10k_dfwd_del_station
KfreeRcu ==
    /\ rcu.w.pc = "kfree_rcu"
    /\ accel' = [accel EXCEPT !.retired = @ \cup {rcu.w.old}]
    /\ rcu' = IF rcu.w.op = "add"
              THEN [rcu EXCEPT !.wait = @ \cup kfree_rcu(rcu, rcu.w.old),
                               !.w.pc = "record"]
              ELSE [rcu EXCEPT !.wait = @ \cup kfree_rcu(rcu, rcu.w.old),
                               !.w = WriterIdle]
    /\ RcuFrame /\ RcuQueueFrame

\* the search for a free slot and l2_accel->macvlan[i] = sdev
AddRecord ==
    /\ rcu.w.pc = "record"
    /\ LET i == FindSlot(CurTable(accel), 0) IN
       /\ accel' = [accel EXCEPT !.tables[accel.l2_accel].macvlan[i + 1] = rcu.w.sdev]
       /\ rcu' = [rcu EXCEPT !.w.pc = "count", !.w.i = i]
    /\ RcuFrame /\ RcuQueueFrame

\* l2_accel->count++, and the rest of fm10k_dfwd_add_station
AddCount ==
    /\ rcu.w.pc = "count"
    /\ accel' = [accel EXCEPT !.tables[accel.l2_accel].count = @ + 1, !.adds = @ + 1]
    /\ \E q \in { IF accel.ready
                  THEN fm10k_queue_mac_request(QState(macvlan_requests, worker, next_id),
                                               CurTable(accel).dglort + 1 + rcu.w.i,
                                               StationAddr(rcu.w.sdev),
                                               intf.default_vid, TRUE, -1)
                  ELSE QState(macvlan_requests, worker, next_id) } :
          /\ macvlan_requests' = q.list
          /\ worker' = q.w
          /\ next_id' = q.next
          /\ appended' = appended \o Ids(q.enq)
    /\ rcu' = WriterReturn
    /\ RcuFrame

\* fm10k_dfwd_del_station up to l2_accel->macvlan[i] = NULL
DelEnter ==
    /\ rcu.w.pc = "idle" /\ rcu.ops < MaxRcuOps
    /\ \E sdev \in RcuDelTargets :
          IF accel.l2_accel = 0
          THEN /\ rcu' = [rcu EXCEPT !.ops = @ + 1]
               /\ UNCHANGED accel
               /\ RcuQueueFrame
          ELSE LET i == FindSlot(CurTable(accel), sdev) IN
               IF i = CurTable(accel).size
               THEN /\ rcu' = [rcu EXCEPT !.ops = @ + 1]
                    /\ UNCHANGED accel
                    /\ RcuQueueFrame
               ELSE /\ \E q \in { IF accel.ready
                                  THEN fm10k_queue_mac_request(
                                           QState(macvlan_requests, worker, next_id),
                                           CurTable(accel).dglort + 1 + i,
                                           StationAddr(sdev), intf.default_vid, FALSE, -1)
                                  ELSE QState(macvlan_requests, worker, next_id) } :
                          /\ macvlan_requests' = q.list
                          /\ worker' = q.w
                          /\ next_id' = q.next
                          /\ appended' = appended \o Ids(q.enq)
                    /\ accel' = [accel EXCEPT !.tables[accel.l2_accel].macvlan[i + 1] = 0]
                    /\ rcu' = [rcu EXCEPT !.ops = @ + 1,
                                          !.w = [WriterIdle EXCEPT !.pc = "uncount",
                                                                   !.op = "del",
                                                                   !.sdev = sdev, !.i = i]]
    /\ RcuFrame

\* l2_accel->count--, and the test for the empty table
DelCount ==
    /\ rcu.w.pc = "uncount"
    /\ accel' = [accel EXCEPT !.tables[accel.l2_accel].count = @ - 1]
    /\ rcu' = IF CurTable(accel).count = 1
              THEN [rcu EXCEPT !.w.pc = "assign_ring", !.w.new = 0,
                               !.w.old = accel.l2_accel]
              ELSE WriterReturn
    /\ RcuFrame /\ RcuQueueFrame

\* the receive path enters its read-side section
ReaderEnter(r) ==
    /\ rcu.rd[r].pc = "idle"
    /\ rcu' = [rcu EXCEPT !.rd[r].pc = "load"]
    /\ UNCHANGED accel
    /\ RcuFrame /\ RcuQueueFrame

\* l2_accel = rcu_dereference_bh(rx_ring->l2_accel)
ReaderLoad(r) ==
    /\ rcu.rd[r].pc = "load"
    /\ rcu' = [rcu EXCEPT !.rd[r] = [pc |-> "use", ref |-> accel.ring]]
    /\ UNCHANGED accel
    /\ RcuFrame /\ RcuQueueFrame

\* the receive path is done with the table and leaves its read-side section;
\* no grace period waits for it any longer
ReaderExit(r) ==
    /\ rcu.rd[r].pc = "use"
    /\ rcu' = [rcu EXCEPT !.rd[r] = ReaderIdle,
                          !.wait = {p \in @ : p[2] # r}]
    /\ UNCHANGED accel
    /\ RcuFrame /\ RcuQueueFrame

\* the grace period of a retired table is over: the table is freed
Reclaim ==
    /\ \E t \in accel.retired \ rcu.freed :
          /\ \A r \in Readers : <<t, r>> \notin rcu.wait
          /\ rcu' = [rcu EXCEPT !.freed = @ \cup {t}]
    /\ UNCHANGED accel
    /\ RcuFrame /\ RcuQueueFrame

RcuNext ==
    \/ AddEnter
    \/ AddInit
    \/ AddMemcpy
    \/ AddSetSize
    \/ AssignRing
    \/ AssignIntf
    \/ KfreeRcu
    \/ AddRecord
    \/ AddCount
    \/ DelEnter
    \/ DelCount
    \/ \E r \in Readers : ReaderEnter(r)
    \/ \E r \in Readers : ReaderLoad(r)
    \/ \E r \in Readers : ReaderExit(r)
    \/ Reclaim

SpecRcu == RcuInit /\ [][RcuNext]_vars

-----------------------------------------------------------------------------
(* The xcast mode over several calls: dev->flags changed by the stack and    *)
(* fm10k_set_rx_mode called for them, fm10k_restore_rx_state at bring-up,    *)
(* the host mailbox ready or not at each call.  mbx keeps the direct calls   *)
(* made to the mailbox collaborator, in order.                               *)

\* calls in one run
MaxXcastOps == 3

\* hw->mac.ops.update_lport_state(hw, glort, glort_count, enable)
LportEv(glort, enable) == [e |-> "update_lport_state", i |-> glort, enable |-> enable]

\* fm10k_restore_rx_state: the loop that replays the VLAN table and the MAC
\* address for every active VLAN; the results of the enqueues are not looked at
RECURSIVE RestoreVlanLoop(_, _, _, _)
RestoreVlanLoop(I, Q, vid, failAt) ==
    IF vid >= VLAN_N_VID
    THEN Q
    ELSE One({ RestoreVlanLoop(I, Q1, fm10k_find_next_vlan(I, vid), failAt)
               : Q1 \in { fm10k_queue_mac_request(
                              fm10k_queue_vlan_request(Q, vid, 0, TRUE, failAt),
                              I.glort, I.mac_addr, vid, TRUE, failAt) } })

\* fm10k_restore_rx_state: the loop over the stations of the forwarding
\* table; the mode of a station is sent whether or not the mailbox is ready
RECURSIVE RestoreStations(_, _, _, _, _)
RestoreStations(t, I, R, i, failAt) ==
    IF i >= t.size
    THEN R
    ELSE IF t.macvlan[i + 1] = 0
    THEN RestoreStations(t, I, R, i + 1, failAt)
    ELSE RestoreStations(
             t, I,
             [q |-> fm10k_queue_mac_request(R.q, t.dglort + 1 + i,
                                            StationAddr(t.macvlan[i + 1]),
                                            I.default_vid, TRUE, failAt),
              ev |-> Append(R.ev, XcastEv(t.dglort + 1 + i, "MULTI"))],
             i + 1, failAt)

\* fm10k_restore_rx_state(interface) up to the recording of the mode; A is
\* the forwarding state.  The call of fm10k_restore_udp_port_info that ends it
\* is made where the outcome is applied.
fm10k_restore_rx_state(I, Q, A, host_ready, failAt) ==
    One({ One({ One({ VlanResult(
                          [I EXCEPT !.xcast_mode = xcast_mode,
                                    !.uc = u.list, !.mc = m.list],
                          st.q, 0,
                          (IF fm10k_host_mbx_ready(I, host_ready)
                           THEN <<LportEv(I.glort, TRUE), XcastEv(I.glort, xcast_mode)>>
                           ELSE <<>>) \o st.ev)
                      : st \in { IF A.l2_accel = 0
                                 THEN [q |-> m.q, ev |-> <<>>]
                                 ELSE RestoreStations(CurTable(A), I,
                                                      [q |-> m.q, ev |-> <<>>],
                                                      0, failAt) } })
                : m \in { DevSync(I, u.q, I.mc, 1, TRUE, failAt) } })
          : xcast_mode \in {XcastMode(I.flags)},
            u \in { DevSync(I,
                            RestoreVlanLoop(
                                I,
                                fm10k_queue_vlan_request(
                                    Q, FM10K_VLAN_ALL, 0,
                                    XcastMode(I.flags) = "PROMISC" \/ I.ies, failAt),
                                fm10k_find_next_vlan(I, 0), failAt),
                            I.uc, 1, FALSE, failAt) } })

\* allocation plans of the calls: none fails, or the first
XcastFailPlans == {-1, 0}

XcastInit ==
    /\ tx_ring = [q \in {0} |-> TornDownRing(1)]
    /\ rx_ring = [q \in {0} |-> TornDownRing(1)]
    /\ zombie = FALSE
    /\ irq = FALSE
    /\ running = FALSE
    /\ last = LastNone
    /\ QueueInit
    /\ rst = ResetIdle
    /\ rcu = RcuIdle
    /\ udp = UdpRest
    /\ \E vf \in BOOLEAN, flags \in FlagChoices, n \in {0, 1} :
          /\ "UP" \in flags
          /\ intf = [IntfRest EXCEPT !.vf = vf, !.flags = flags, !.down = FALSE,
                                     !.active_vlans = {2},
                                     !.uc = <<[addr |-> 4, synced |-> FALSE]>>]
          /\ accel = [Prefilled([NoAccel EXCEPT !.glort_count = 16], IntfRest, n)
                      EXCEPT !.adds = 0]

\* the part of an action common to the two calls: r is the outcome
XcastApply(op, in, r) ==
    /\ intf' = [r.intf EXCEPT !.ops = @ + 1]
    /\ macvlan_requests' = r.q.list
    /\ worker' = r.q.w
    /\ next_id' = r.q.next
    /\ appended' = appended \o Ids(r.q.enq)
    /\ mbx' = mbx \o r.ev
    /\ last' = Last(op, in, r.ret,
                    [enq |-> r.q.enq, failed |-> r.q.failed, mbx |-> r.ev], FALSE,
                    [intf |-> intf, list |-> macvlan_requests, mbx |-> mbx])
    /\ udp' = IF op = "restore_rx_state"
              THEN fm10k_restore_udp_port_info(udp, intf.vf)
              ELSE udp
    /\ UNCHANGED <<caller, cancelled, ringVars, rst, accel, rcu>>

\* the stack changes dev->flags and calls fm10k_set_rx_mode
XcastSetRxMode ==
    /\ intf.ops < MaxXcastOps
    /\ \E flags \in FlagChoices, ready \in BOOLEAN, failAt \in XcastFailPlans :
          \E r \in {fm10k_set_rx_mode([intf EXCEPT !.flags = flags],
                                      QState(macvlan_requests, worker, next_id),
                                      ready, failAt)} :
             XcastApply("set_rx_mode",
                        [flags |-> flags, ready |-> ready, failAt |-> failAt], r)

\* fm10k_restore_rx_state at bring-up
XcastRestore ==
    /\ intf.ops < MaxXcastOps
    /\ "UP" \in intf.flags
    /\ \E ready \in BOOLEAN, failAt \in XcastFailPlans :
          \E r \in {fm10k_restore_rx_state(intf,
                                           QState(macvlan_requests, worker, next_id),
                                           accel, ready, failAt)} :
             XcastApply("restore_rx_state", [ready |-> ready, failAt |-> failAt], r)

XcastNext ==
    \/ XcastSetRxMode
    \/ XcastRestore

SpecXcast == XcastInit /\ [][XcastNext]_vars

-----------------------------------------------------------------------------
(* Specification of the UDP tunnel port lists *)

\* tunnel calls in one run
MaxUdpOps == 3

\* ti->type, ti->port (network byte order: 4789 and 6081), ti->sa_family
\* (AF_INET, AF_INET6)
TunnelTypes == {"UDP_TUNNEL_TYPE_VXLAN", "UDP_TUNNEL_TYPE_GENEVE", "UDP_TUNNEL_TYPE_OTHER"}
TunnelPorts == {46354, 49431}
TunnelFamilies == {2, 10}
TunnelInfos ==
    [type : TunnelTypes, port : TunnelPorts, sa_family : TunnelFamilies]

UdpInit ==
    /\ tx_ring = [q \in {0} |-> TornDownRing(1)]
    /\ rx_ring = [q \in {0} |-> TornDownRing(1)]
    /\ zombie = FALSE
    /\ irq = FALSE
    /\ running = FALSE
    /\ last = LastNone
    /\ QueueInit
    /\ CtlRest

\* the part of an action common to the tunnel calls: U is the outcome
UdpApply(op, in, U) ==
    /\ udp' = [U EXCEPT !.ops = @ + 1]
    /\ last' = Last(op, in, 0, <<>>, FALSE, [udp |-> udp])
    /\ UNCHANGED <<ringVars, queueVars, rst, intf, accel, rcu>>

UdpTunnelAdd ==
    /\ udp.ops < MaxUdpOps
    /\ \E ti \in TunnelInfos, allocOk \in BOOLEAN :
          \E U \in {fm10k_udp_tunnel_add(udp, intf.vf, ti, allocOk)} :
             UdpApply("udp_tunnel_add", [ti |-> ti, allocOk |-> allocOk], U)

UdpTunnelDel ==
    /\ udp.ops < MaxUdpOps
    /\ \E ti \in TunnelInfos :
          \E U \in {fm10k_udp_tunnel_del(udp, intf.vf, ti)} :
             UdpApply("udp_tunnel_del", [ti |-> ti], U)

\* fm10k_free_udp_port_info as fm10k_close calls it
FreeUdpPortInfo ==
    /\ udp.ops < MaxUdpOps
    /\ \E U \in {fm10k_free_udp_port_info(udp)} :
          UdpApply("free_udp_port_info", <<>>, U)

UdpNext ==
    \/ UdpTunnelAdd
    \/ UdpTunnelDel
    \/ FreeUdpPortInfo

SpecUdp == UdpInit /\ [][UdpNext]_vars

-----------------------------------------------------------------------------
(* Specification of one Tx ring and one Rx ring at slot level *)

RingInit ==
    /\ \E c \in 1..MaxCount : tx_ring = [q \in {0} |-> TornDownRing(c)]
    /\ \E c \in 1..MaxCount : rx_ring = [q \in {0} |-> TornDownRing(c)]
    /\ zombie = FALSE
    /\ irq = FALSE
    /\ running = FALSE
    /\ last = LastNone
    /\ QueueInit
    /\ CtlRest

\* fm10k_setup_tx_resources on the torn-down ring
SetupTx ==
    /\ IsTornDown(tx_ring[0])
    /\ \E bufOk, descOk \in BOOLEAN :
          \E s \in {fm10k_setup_tx_resources(tx_ring[0], bufOk, descOk)} :
             /\ tx_ring' = [tx_ring EXCEPT ![0] = s.ring]
             /\ last' = Last("setup_tx", [bufOk |-> bufOk, descOk |-> descOk],
                             s.ret, s.ev, s.fault, tx_ring[0])
    /\ UNCHANGED <<rx_ring, zombie, irq, running, queueVars, ctlVars>>

CleanTx ==
    /\ \E s \in {fm10k_clean_tx_ring(tx_ring[0])} :
          /\ tx_ring' = [tx_ring EXCEPT ![0] = s.ring]
          /\ last' = Last("clean_tx", <<>>, s.ret, s.ev, s.fault, tx_ring[0])
    /\ UNCHANGED <<rx_ring, zombie, irq, running, queueVars, ctlVars>>

FreeTx ==
    /\ \E s \in {fm10k_free_tx_resources(tx_ring[0])} :
          /\ tx_ring' = [tx_ring EXCEPT ![0] = s.ring]
          /\ last' = Last("free_tx", <<>>, s.ret, s.ev, s.fault, tx_ring[0])
    /\ UNCHANGED <<rx_ring, zombie, irq, running, queueVars, ctlVars>>

\* the transmit path and its completion handler write a slot of a set-up ring
TxActivity ==
    /\ IsSetUp(tx_ring[0])
    /\ \E i \in 0..(tx_ring[0].count - 1), v \in TxBufferValues :
          /\ SlotAt(tx_ring[0].buffer, i, ZeroTxBuffer) # v
          /\ tx_ring' = [tx_ring EXCEPT
                           ![0].buffer = SetSlot(tx_ring[0].buffer, i, v, ZeroTxBuffer)]
    /\ last' = LastNone
    /\ UNCHANGED <<rx_ring, zombie, irq, running, queueVars, ctlVars>>

SetupRx ==
    /\ IsTornDown(rx_ring[0])
    /\ \E bufOk, descOk \in BOOLEAN :
          \E s \in {fm10k_setup_rx_resources(rx_ring[0], bufOk, descOk)} :
             /\ rx_ring' = [rx_ring EXCEPT ![0] = s.ring]
             /\ last' = Last("setup_rx", [bufOk |-> bufOk, descOk |-> descOk],
                             s.ret, s.ev, s.fault, rx_ring[0])
    /\ UNCHANGED <<tx_ring, zombie, irq, running, queueVars, ctlVars>>

CleanRx ==
    /\ \E s \in {fm10k_clean_rx_ring(rx_ring[0])} :
          /\ rx_ring' = [rx_ring EXCEPT ![0] = s.ring]
          /\ last' = Last("clean_rx", <<>>, s.ret, s.ev, s.fault, rx_ring[0])
    /\ UNCHANGED <<tx_ring, zombie, irq, running, queueVars, ctlVars>>

FreeRx ==
    /\ \E s \in {fm10k_free_rx_resources(rx_ring[0])} :
          /\ rx_ring' = [rx_ring EXCEPT ![0] = s.ring]
          /\ last' = Last("free_rx", <<>>, s.ret, s.ev, s.fault, rx_ring[0])
    /\ UNCHANGED <<tx_ring, zombie, irq, running, queueVars, ctlVars>>

\* the receive path gives the slot at next_to_use a page
RxAlloc ==
    /\ IsSetUp(rx_ring[0])
    /\ LET r == rx_ring[0]
           n == (r.next_to_use + 1) % r.count
       IN /\ SlotAt(r.buffer, r.next_to_use, ZeroRxBuffer).page = 0
          /\ rx_ring' = [rx_ring EXCEPT ![0].buffer = SetSlot(r.buffer, r.next_to_use,
                                                              [page |-> 1], ZeroRxBuffer),
                                        ![0].next_to_use = n,
                                        ![0].next_to_alloc = n]
    /\ last' = LastNone
    /\ UNCHANGED <<tx_ring, zombie, irq, running, queueVars, ctlVars>>

\* the receive path takes the page of the slot at next_to_clean (keep: the page
\* is recycled into the slot) and holds or passes up the packet being assembled
RxConsume ==
    /\ IsSetUp(rx_ring[0])
    /\ LET r == rx_ring[0]
       IN /\ SlotAt(r.buffer, r.next_to_clean, ZeroRxBuffer).page # 0
          /\ \E keep \in BOOLEAN, partial \in {0, 1} :
                rx_ring' = [rx_ring EXCEPT
                              ![0].buffer = SetSlot(r.buffer, r.next_to_clean,
                                                    [page |-> IF keep THEN 1 ELSE 0],
                                                    ZeroRxBuffer),
                              ![0].skb = partial,
                              ![0].next_to_clean = (r.next_to_clean + 1) % r.count]
    /\ last' = LastNone
    /\ UNCHANGED <<tx_ring, zombie, irq, running, queueVars, ctlVars>>

RingNext ==
    \/ SetupTx \/ CleanTx \/ FreeTx \/ TxActivity
    \/ SetupRx \/ CleanRx \/ FreeRx \/ RxAlloc \/ RxConsume

SpecRing == RingInit /\ [][RingNext]_vars

-----------------------------------------------------------------------------
(* Specification of interface open / close over all queues *)

OpenInit ==
    /\ \E n \in 1..NumQueues, c \in RingCounts :
          tx_ring = [q \in 0..(n - 1) |-> TornDownRing(c)]
    /\ \E n \in 1..NumQueues, c \in RingCounts :
          rx_ring = [q \in 0..(n - 1) |-> TornDownRing(c)]
    /\ zombie = FALSE
    /\ irq = FALSE
    /\ running = FALSE
    /\ last = LastNone
    /\ QueueInit
    /\ CtlRest

\* ndo_open: called by the stack on an interface that is down
Open ==
    /\ ~running
    /\ \E in \in OpenInputs(Len0(tx_ring), Len0(rx_ring)) :
          \* a zombie open returns before any step that can fail
          /\ zombie => in.step = "none"
          /\ \E o \in {fm10k_open(tx_ring, rx_ring, zombie, irq, in)} :
                /\ tx_ring' = o.tx
                /\ rx_ring' = o.rx
                /\ zombie' = o.zombie
                /\ irq' = o.irq
                /\ running' = o.running
                /\ last' = Last("open", in, o.ret, o.ev, o.fault,
                                [tx |-> tx_ring, rx |-> rx_ring, zombie |-> zombie])
    /\ UNCHANGED <<queueVars, ctlVars>>

\* ndo_stop: called by the stack on an interface that is up
Close ==
    /\ running
    /\ \E usage \in {0, 1} :
          \E o \in {fm10k_close(tx_ring, rx_ring, zombie, irq, usage)} :
             /\ tx_ring' = o.tx
             /\ rx_ring' = o.rx
             /\ zombie' = o.zombie
             /\ irq' = o.irq
             /\ running' = o.running
             /\ last' = Last("close", usage, o.ret, o.ev, o.fault,
                             [tx |-> tx_ring, rx |-> rx_ring, zombie |-> zombie])
             /\ udp' = IF usage > 0 THEN udp ELSE fm10k_free_udp_port_info(udp)
    /\ UNCHANGED <<queueVars, rst, intf, accel, rcu>>

OpenNext == Open \/ Close

SpecOpen == OpenInit /\ [][OpenNext]_vars

-----------------------------------------------------------------------------
(* Claims on the rings *)

TxSlot(r, i) == SlotAt(r.buffer, i, ZeroTxBuffer)
RxSlot(r, i) == SlotAt(r.buffer, i, ZeroRxBuffer)
HasEv(ev, name) == \E k \in 1..Len(ev) : ev[k].e = name

\* the ring the latest single-ring operation worked on
LastRing == IF last.op \in {"setup_tx", "clean_tx", "free_tx"} THEN tx_ring[0] ELSE rx_ring[0]

\* C1: setup_tx_ring / setup_rx_ring on a torn-down ring is all-or-nothing: when
\* either allocation fails it returns -ENOMEM and leaves buffer array and
\* descriptor block null, a buffer array allocated before the descriptor-block
\* failure having been released; when both succeed it returns 0 with both non-null.
C1_SetupAllOrNothing ==
    last.op \in {"setup_tx", "setup_rx"} =>
        IF last.in.bufOk /\ last.in.descOk
        THEN last.ret = 0 /\ IsSetUp(LastRing)
        ELSE /\ last.ret = -ENOMEM
             /\ IsTornDown(LastRing)
             /\ (HasEv(last.ev, "vzalloc") <=> HasEv(last.ev, "vfree"))
             /\ (last.in.bufOk => HasEv(last.ev, "vfree"))

C1_Witness ==
    /\ last.op = "setup_tx"
    /\ last.in.bufOk /\ ~last.in.descOk
    /\ IsTornDown(last.pre)

\* C2: at every operation boundary of any sequence of setup (on a torn-down
\* ring, either allocation may fail), clean and free on a Tx or Rx ring, the
\* buffer array and the descriptor block are both null or both non-null, and
\* no clean got past its guard with a null descriptor block (no fault).
C2_BothOrNeither ==
    /\ \A q \in DOMAIN tx_ring : IsSetUp(tx_ring[q]) \/ IsTornDown(tx_ring[q])
    /\ \A q \in DOMAIN rx_ring : IsSetUp(rx_ring[q]) \/ IsTornDown(rx_ring[q])
    /\ ~last.fault

\* a clean that ran past its guard, on a ring that had been torn down and set
\* up again before
C2_Witness ==
    /\ last.op = "clean_rx"
    /\ IsSetUp(last.pre)
    /\ HasEv(last.ev, "memset_desc")
    /\ IsTornDown(tx_ring[0]) /\ tx_ring[0].size # 0

\* C3: free(ring) leaves the ring torn down, in particular right after a
\* successful setup; on a ring that is already torn down it releases nothing,
\* touches no slot and leaves the ring as it was.
C3_FreeIdempotent ==
    last.op \in {"free_tx", "free_rx"} =>
        /\ IsTornDown(LastRing)
        /\ ~last.fault
        /\ IsTornDown(last.pre) => (last.ev = <<>> /\ LastRing = last.pre)
        /\ IsSetUp(last.pre) =>
              (HasEv(last.ev, "vfree") /\ HasEv(last.ev, "dma_free_coherent"))

\* a second free of a ring that was set up and freed before
C3_Witness ==
    /\ last.op = "free_tx"
    /\ IsTornDown(last.pre)
    /\ last.pre.size # 0
    /\ last.ev = <<>>

\* C7: after every clean_tx_ring call, whatever the slots held, no slot has a
\* null packet with a non-zero mapping length and no slot has a watch marker
\* with a null packet.
C7_TxSlotsNeverPartial ==
    last.op = "clean_tx" =>
        \A i \in 0..(tx_ring[0].buffer.n - 1) :
            /\ ~(TxSlot(tx_ring[0], i).skb = 0 /\ TxSlot(tx_ring[0], i).len # 0)
            /\ ~(TxSlot(tx_ring[0], i).next_to_watch # 0 /\ TxSlot(tx_ring[0], i).skb = 0)

\* a clean of a ring whose only mapped slot held a page fragment (no packet)
\* with a watch marker
C7_Witness ==
    /\ last.op = "clean_tx"
    /\ ~last.pre.buffer.null
    /\ \E i \in 0..(last.pre.count - 1) :
          /\ TxSlot(last.pre, i) = [skb |-> 0, len |-> 1, next_to_watch |-> 1]
          /\ last.ev = <<Ev("dma_unmap_page", i), Ev("memset_buffer", 0),
                         Ev("memset_desc", 0)>>

-----------------------------------------------------------------------------
(* Claims on setup_all and open *)

\* the open failed in setup_all of the Tx rings (kind = "tx") or of the Rx rings
SetupAllFailed(kind) == last.op = "open" /\ last.in.step = kind
FailedAt == last.in.plan.at

\* the ring as it was, but for the size field
SameButSize(r, old) == [r EXCEPT !.size = old.size] = old

IsAcquire(e) == e.e \in {"setup_tx", "setup_rx", "request_irq"}
IsRelease(e) == e.e \in {"free_tx", "free_rx", "free_irq"}
ReleaseOf(e) ==
    Ev(CASE e.e = "setup_tx" -> "free_tx" [] e.e = "setup_rx" -> "free_rx"
         [] OTHER -> "free_irq", e.i)
Acquired == SelectSeq(last.ev, IsAcquire)
Released == SelectSeq(last.ev, IsRelease)

\* C5: when fm10k_open returns an error, whatever the failing step, every Tx
\* and Rx ring is torn down, no interrupt is held, and what was acquired before
\* the failing step has been released in reverse order of acquisition.
C5_OpenUnwinds ==
    (last.op = "open" /\ last.ret # 0) =>
        /\ \A q \in DOMAIN tx_ring : IsTornDown(tx_ring[q])
        /\ \A q \in DOMAIN rx_ring : IsTornDown(rx_ring[q])
        /\ ~irq /\ ~running /\ ~last.fault
        /\ Len(Released) = Len(Acquired)
        /\ \A k \in 1..Len(Acquired) :
              Released[k] = ReleaseOf(Acquired[Len(Acquired) + 1 - k])

\* the queue-count notification failed after all rings and the interrupts
\* had been acquired
C5_Witness ==
    /\ last.op = "open" /\ last.ret # 0
    /\ last.in.step = "set_rx_queues"
    /\ Len0(tx_ring) >= 2 /\ Len0(rx_ring) >= 2
    /\ Len(Released) = Len0(tx_ring) + Len0(rx_ring) + 1

\* count * descriptor_size <= bytes < count * descriptor_size + 4096, bytes a
\* multiple of 4096
RoundedUp(bytes, count, descSize) ==
    /\ bytes % DescAlign = 0
    /\ bytes >= count * descSize
    /\ bytes < count * descSize + DescAlign

\* C6: after a successful ring setup the descriptor block is non-null and its
\* byte size is count * descriptor_size rounded up to a 4096-byte boundary;
\* after an open with 4 Tx and 4 Rx queues of 512 descriptors this is so for
\* all 8 rings.
C6_DescBlockSize ==
    /\ \A q \in DOMAIN tx_ring :
          ~tx_ring[q].buffer.null =>
              /\ ~tx_ring[q].desc.null
              /\ tx_ring[q].desc.bytes = tx_ring[q].size
              /\ RoundedUp(tx_ring[q].size, tx_ring[q].count, TxDescSize)
    /\ \A q \in DOMAIN rx_ring :
          ~rx_ring[q].buffer.null =>
              /\ ~rx_ring[q].desc.null
              /\ rx_ring[q].desc.bytes = rx_ring[q].size
              /\ RoundedUp(rx_ring[q].size, rx_ring[q].count, RxDescSize)
    /\ (last.op = "open" /\ last.ret = 0) =>
          /\ \A q \in DOMAIN tx_ring : IsSetUp(tx_ring[q])
          /\ \A q \in DOMAIN rx_ring : IsSetUp(rx_ring[q])

\* the interface was opened with 4 Tx and 4 Rx queues of 512 descriptors
C6_Witness ==
    /\ last.op = "open" /\ last.ret = 0 /\ ~last.pre.zombie
    /\ Len0(tx_ring) = 4 /\ Len0(rx_ring) = 4
    /\ \A q \in 0..3 : /\ tx_ring[q].count = 512 /\ rx_ring[q].count = 512
                       /\ tx_ring[q].desc.bytes = 512 * TxDescSize
                       /\ rx_ring[q].desc.bytes = 512 * RxDescSize

-----------------------------------------------------------------------------
(* Claims on the request queue *)

NotCancelled(id) == id \notin cancelled

\* requests taken off the list by the drain worker and not yet forwarded
InHand == IF worker.item.id # 0 THEN <<worker.item.id>> ELSE <<>>

\* C8: the requests are forwarded to the mailbox in the order in which their
\* appends took the queue lock, for every interleaving of the enqueue callers,
\* the drain worker and cancel: what was forwarded, then what the worker holds,
\* then the list, is the append order without the cancelled requests.
C8_ForwardedInEnqueueOrder ==
    Ids(mbx) \o InHand \o Ids(macvlan_requests) = SelectSeq(appended, NotCancelled)

\* two enqueue callers are both between their append and their signal while
\* the worker, signalled by an earlier enqueue, has forwarded two requests and
\* holds the third
C8_Witness ==
    /\ Len(mbx) = 2 /\ mbx[1].type # mbx[2].type
    /\ worker.pc = "forward" /\ worker.item.id = 3
    /\ \E c, d \in Callers :
          c # d /\ caller[c].pc = "schedule" /\ caller[d].pc = "schedule"

\* C9 as stated: cancel(port, vlans = false) removes every queued MAC request
\* for port and leaves every VLAN request (and the MAC requests of other ports).
C9_CancelMacOnly ==
    (last.op = "cancel" /\ ~last.in.vlans) =>
        LET Stays(r) == ~(IsMacRequest(r) /\ r.glort = last.in.glort)
        IN macvlan_requests = SelectSeq(last.pre, Stays)

\* C10: cancel(port, vlans = true) removes every queued MAC request for port
\* and every queued VLAN request, and leaves the MAC requests of other ports
\* in their original relative order.
C10_CancelWithVlans ==
    (last.op = "cancel" /\ last.in.vlans) =>
        LET Stays(r) == IsMacRequest(r) /\ r.glort # last.in.glort
        IN macvlan_requests = SelectSeq(last.pre, Stays)

\* a cancel on a list holding a MAC request of another port, then a request it
\* removes, then another MAC request of the other port
C10_Witness ==
    /\ last.op = "cancel" /\ last.in.vlans
    /\ Len(last.pre) = 3 /\ Len(macvlan_requests) = 2
    /\ macvlan_requests = <<last.pre[1], last.pre[3]>>
    /\ IsMacRequest(last.pre[2]) /\ last.pre[2].glort = last.in.glort

-----------------------------------------------------------------------------
(* Claims on enqueue and on the drain worker *)

\* C11: when the allocation of the request fails, enqueue returns -ENOMEM,
\* the list is unchanged and the drain worker is not signalled; when it
\* succeeds, exactly one request, the one populated, is appended at the tail
\* of the list, and the worker is signalled in a later step, after the append.
C11_EnqueueOutcome ==
    [][ /\ (last'.op = "queue_request" /\ last'.ret = -ENOMEM) =>
              (macvlan_requests' = macvlan_requests /\ worker' = worker)
        /\ \A c \in Callers :
              /\ (caller[c].pc = "idle" /\ caller'[c] # caller[c]) =>
                    /\ caller'[c].pc = "append"
                    /\ macvlan_requests' = macvlan_requests /\ worker' = worker
              /\ (caller[c].pc = "append" /\ caller'[c] # caller[c]) =>
                    /\ caller'[c].pc = "schedule"
                    /\ Len(macvlan_requests') = Len(macvlan_requests) + 1
                    /\ SubSeq(macvlan_requests', 1, Len(macvlan_requests)) = macvlan_requests
                    /\ [macvlan_requests'[Len(macvlan_requests')] EXCEPT !.id = 0]
                          = caller[c].req
                    /\ worker' = worker
              /\ (caller[c].pc = "schedule" /\ caller'[c] # caller[c]) =>
                    /\ caller'[c].pc = "idle"
                    /\ macvlan_requests' = macvlan_requests
                    /\ worker'.sched
      ]_vars

\* an allocation has just failed while an appended request waits on the list
\* for its caller's signal
C11_Witness ==
    /\ last.op = "queue_request" /\ last.ret = -ENOMEM
    /\ Len(macvlan_requests) >= 1
    /\ ~worker.sched
    /\ \E c \in Callers : caller[c].pc = "schedule"

\* C12: at most one invocation of the drain worker is active at any time,
\* whatever the interleaving of the enqueue callers' signals.
C12_AtMostOneWorker == worker.active <= 1

\* two enqueues have run to their end and nothing was forwarded or cancelled:
\* the second signal met the worker the first one had scheduled
C12_Witness ==
    /\ worker.active = 1 /\ worker.sched
    /\ Len(appended) >= 2 /\ mbx = <<>> /\ cancelled = {}
    /\ \A c \in Callers : caller[c].pc = "idle"

\* every appended request is in exactly one place: forwarded, in the worker's
\* hand, on the list, or cancelled; and no request is forwarded twice
C13_Accounted ==
    /\ Cardinality(IdSet(mbx)) = Len(mbx)
    /\ IdSet(mbx) \cup {worker.item.id} \cup IdSet(macvlan_requests) \cup cancelled
          = IdSet([k \in 1..Len(appended) |-> [id |-> appended[k]]]) \cup {worker.item.id}
    /\ IdSet(mbx) \cap IdSet(macvlan_requests) = {}
    /\ IdSet(mbx) \cap cancelled = {}
    /\ IdSet(macvlan_requests) \cap cancelled = {}
    /\ worker.item.id \notin IdSet(mbx) \cup IdSet(macvlan_requests) \cup cancelled
    /\ Len(macvlan_requests) = Cardinality(IdSet(macvlan_requests))

\* C13: every request on the list is eventually forwarded to the mailbox,
\* exactly once, unless a cancel removes it before it is dequeued; a request is
\* lost in no other way.
C13_EventuallyForwarded ==
    /\ []C13_Accounted
    /\ \A id \in 1..MaxReq :
          (id \in IdSet(macvlan_requests)) ~> (id \in IdSet(mbx) \/ id \in cancelled)

\* everything allocated was appended; some of it was forwarded, some cancelled,
\* nothing is left
C13_Witness ==
    /\ Len(appended) = MaxReq
    /\ Len(mbx) >= 1 /\ cancelled # {}
    /\ macvlan_requests = <<>> /\ worker.item = NoReq

-----------------------------------------------------------------------------
(* Claims on fm10k_reset_rx_state *)

\* the requests a cancel for the interface's port removes: its MAC requests
\* and the VLAN requests
ForResetPort(r) == r.id # 0 /\ ClearRemoves(r, ResetGlort, TRUE)

\* C15 as stated: when fm10k_reset_rx_state sends the logical-port disable, no
\* request for the interface's port is on the list and none is in the drain
\* worker's hand, whatever the enqueue callers and the worker do meanwhile.
C15_NothingPendingAtTeardown ==
    rst.seen # <<>> =>
        /\ \A k \in 1..Len(rst.seen[1].list) : ~ForResetPort(rst.seen[1].list[k])
        /\ ~ForResetPort(rst.seen[1].item)

\* the order of the steps of fm10k_reset_rx_state: the cancel comes after the
\* scheduled flag was read clear, the disable after the cancel
C15_StepOrder ==
    [][ /\ (rst.pc = "wait" /\ rst'.pc # "wait") => (rst'.pc = "cancel" /\ ~worker.sched)
        /\ (rst.pc = "cancel" /\ rst'.pc # "cancel") => rst'.pc = "teardown"
        /\ (rst'.seen # <<>> /\ rst.seen = <<>>) => rst.pc = "teardown"
      ]_vars

\* the same as C15_NothingPendingAtTeardown for the runs in which no request
\* was appended between the read of the clear flag and the disable, and no
\* enqueue was under way at that read
C15_QuietCallers ==
    (rst.seen # <<>> /\ rst.quiet /\ rst.seen[1].mark = rst.mark)
        => C15_NothingPendingAtTeardown

-----------------------------------------------------------------------------
(* Claims on the VLAN State Tracker *)

IsVlanOp == last.op \in {"update_vid", "set_rx_mode", "set_mac"}

\* the interface's VLAN state is what it was before the operation
SameIntf(I, J) == [I EXCEPT !.ops = 0] = [J EXCEPT !.ops = 0]

\* nothing changed: bitmap, ring flags, working VLAN value, every other field
\* of the interface's VLAN state, and the request list
VlanUnchanged == SameIntf(intf, last.pre.intf) /\ macvlan_requests = last.pre.list

\* C14 as stated: an operation of the tracker one of whose enqueues failed
\* reports an error to its caller.
C14_EnqueueFailurePropagates ==
    (IsVlanOp /\ last.ev.failed > 0) => last.ret # 0

\* C16 as stated: update_vid rejects vid 0 and every vid >= 4096 with -EINVAL
\* and changes nothing.
C16_Original ==
    (last.op = "update_vid" /\ (last.in.vid = 0 \/ last.in.vid >= VLAN_N_VID)) =>
        (last.ret = -EINVAL /\ VlanUnchanged)

\* C16: update_vid rejects every vid >= 4096 with -EINVAL and accepts vid 0
\* with return value 0, for set and for clear; in both cases the bitmap, the
\* receive rings' flags and the request list are unchanged.
C16_UpdateVidRange ==
    /\ (last.op = "update_vid" /\ last.in.vid >= VLAN_N_VID) =>
          (last.ret = -EINVAL /\ VlanUnchanged)
    /\ (last.op = "update_vid" /\ last.in.vid = 0) =>
          (last.ret = 0 /\ VlanUnchanged)

\* update_vid(0, true) on an interface that is up, without VLAN override, that
\* would queue requests for a valid vid
C16_Witness ==
    /\ last.op = "update_vid" /\ last.in.vid = 0 /\ last.in.set
    /\ last.ret = 0
    /\ ~last.pre.intf.down /\ ~last.pre.intf.vlan_override
    /\ last.pre.intf.active_vlans # {}

\* C17: with VLAN override locked, update_vid(vid, true) for a valid vid fails
\* with -EACCES and changes nothing, and update_vid(vid, false) succeeds and
\* leaves the bit of vid clear.
C17_OverrideLock ==
    (/\ last.op = "update_vid"
     /\ last.in.vid \in 1..(VLAN_N_VID - 1)
     /\ last.pre.intf.vlan_override) =>
        IF last.in.set
        THEN last.ret = -EACCES /\ VlanUnchanged
        ELSE /\ last.ret = 0
             /\ intf.active_vlans = last.pre.intf.active_vlans \ {last.in.vid}

\* a set that is refused for a vid not yet active, on an interface that is up
C17_Witness ==
    /\ last.op = "update_vid" /\ last.in.set /\ last.in.vid = 5
    /\ last.pre.intf.vlan_override /\ ~last.pre.intf.down
    /\ 5 \notin last.pre.intf.active_vlans
    /\ last.ret = -EACCES

\* the VLAN requests among the requests an operation enqueued
VlanEnqueued == SelectSeq(last.ev.enq, IsVlanRequest)

\* fm10k_set_rx_mode ran on an interface that is up and not always-tag, and
\* none of its allocations failed
RxModeRan ==
    /\ last.op = "set_rx_mode"
    /\ "UP" \in last.pre.intf.flags
    /\ ~last.pre.intf.ies
    /\ last.ev.failed = 0

RunOf(r) ==
    (r.vid % (2 ^ FM10K_VLAN_LENGTH_SHIFT))
        .. ((r.vid % (2 ^ FM10K_VLAN_LENGTH_SHIFT)) + (r.vid \div (2 ^ FM10K_VLAN_LENGTH_SHIFT)))

\* the ids covered by the clear requests among the enqueued VLAN requests
ClearedIds ==
    UNION { RunOf(VlanEnqueued[k]) :
              k \in {j \in 1..Len(VlanEnqueued) : ~VlanEnqueued[j].set} }

LeftPromisc ==
    RxModeRan /\ last.pre.intf.xcast_mode = "PROMISC" /\ intf.xcast_mode # "PROMISC"

-----------------------------------------------------------------------------
(* Claims on the Forwarding-Acceleration Table *)

\* the table the interface pointed to before the operation, and now
PreTable == last.pre.accel.tables[last.pre.accel.l2_accel]
NowTable == accel.tables[accel.l2_accel]

\* the operation replaced an existing table by a newly allocated one
Grew ==
    /\ last.pre.accel.l2_accel # 0
    /\ accel.l2_accel # last.pre.accel.l2_accel
    /\ accel.l2_accel > Len(last.pre.accel.tables)

\* no station of a table prepared at the start is in any table
NoPrefill ==
    \A j \in 1..Len(accel.tables) :
        \A k \in 1..Len(accel.tables[j].macvlan) : accel.tables[j].macvlan[k] <= PrefillBase

Occupied(t) == {k \in 1..Len(t.macvlan) : t.macvlan[k] # 0}

IsStationOp == last.op \in {"add_station", "del_station"}

\* C21: after every fm10k_dfwd_add_station / fm10k_dfwd_del_station the
\* rings and the interface refer to the same table; a table that is referred
\* to has count <= size, count equal to the number of occupied slots, and
\* count > 0 (a table whose count reached zero has been discarded); an
\* operation leaves the size as it was or makes it 2 * size + 1; and the
\* reference becomes 'no table' only by the removal of the last station.
C21_TableInvariant ==
    /\ accel.ring = accel.l2_accel
    /\ accel.l2_accel # 0 =>
          /\ NowTable.count <= NowTable.size
          /\ Len(NowTable.macvlan) = NowTable.size
          /\ NowTable.count = Cardinality(Occupied(NowTable))
          /\ NowTable.count > 0
    /\ (IsStationOp /\ last.pre.accel.l2_accel # 0 /\ accel.l2_accel # 0) =>
          \/ NowTable.size = PreTable.size
          \/ NowTable.size = (2 * PreTable.size) + 1
    /\ (IsStationOp /\ last.pre.accel.l2_accel # 0 /\ accel.l2_accel = 0) =>
          /\ last.op = "del_station"
          /\ PreTable.count = 1
          /\ last.pre.accel.l2_accel \in accel.retired

\* the last station of a table was removed: no table is left
C21_Witness ==
    /\ last.op = "del_station"
    /\ last.pre.accel.l2_accel # 0
    /\ PreTable.count = 1
    /\ accel.l2_accel = 0 /\ accel.ring = 0

\* C23: fm10k_dfwd_add_station fails with -EBUSY only without a table and
\* fewer than 7 identifiers, or with a table whose count is at the station cap
\* or at the identifier count minus one, and with -ENOMEM only when the
\* allocation of a table fails; after a failure the references of the
\* interface and the rings, every table (size, count, slots) and the request
\* list are what they were, nothing was queued and no mailbox call was made.
C23_FailedAddLeavesNothing ==
    (last.op = "add_station" /\ last.ret < 0) =>
        /\ accel = last.pre.accel
        /\ macvlan_requests = last.pre.list
        /\ last.ev.enq = <<>> /\ last.ev.mbx = <<>>
        /\ last.ret \in {-EBUSY, -ENOMEM}
        /\ last.ret = -ENOMEM => ~last.in.allocOk
        /\ last.ret = -EBUSY =>
              IF last.pre.accel.l2_accel = 0
              THEN last.pre.accel.glort_count < 7
              ELSE \/ PreTable.count = FM10K_MAX_STATIONS
                   \/ PreTable.count = last.pre.accel.glort_count - 1

\* the allocation of the larger table failed for a full table of 7 stations
\* while the mailbox was ready
C23_Witness ==
    /\ last.op = "add_station" /\ last.ret = -ENOMEM
    /\ last.pre.accel.l2_accel # 0
    /\ PreTable.count = L2AccelInitSize /\ PreTable.size = L2AccelInitSize
    /\ accel.ready

-----------------------------------------------------------------------------
(* Claims on the forwarding table under concurrent readers *)

\* table t is completely built: its size field is the number of slots it was
\* allocated with and its identifier base is the interface's
Built(t) == t.size = Len(t.macvlan) /\ t.dglort = intf.glort

\* table new holds what table old holds, slot by slot
Carries(new, old) ==
    /\ new.count = old.count
    /\ new.dglort = old.dglort
    /\ new.size > old.size
    /\ \A k \in 1..Len(new.macvlan) :
          new.macvlan[k] = IF k <= old.size THEN old.macvlan[k] ELSE 0

\* what a reader can load and what a reader has loaded is a built table that
\* has not been freed
C22_ReadersSeeBuilt ==
    /\ accel.ring # 0 => (Built(accel.tables[accel.ring]) /\ accel.ring \notin rcu.freed)
    /\ \A r \in Readers :
          rcu.rd[r].ref # 0 =>
              /\ Built(accel.tables[rcu.rd[r].ref])
              /\ rcu.rd[r].ref \notin rcu.freed

\* the step that replaces the table of the ring by another one installs a
\* table that carries everything the replaced one holds
C22_SwapComplete ==
    (accel.ring # 0 /\ accel'.ring # 0 /\ accel'.ring # accel.ring) =>
        Carries(accel'.tables[accel'.ring], accel.tables[accel.ring])

\* C22: a reader that loads ring->l2_accel inside its read-side section,
\* concurrently with fm10k_dfwd_add_station / fm10k_dfwd_del_station, gets no
\* table or a completely built one (the old one or the new one, which at the
\* swap holds all of the old one), and the table it has loaded is not freed
\* before it leaves the section.
C22_ReaderSafety == []C22_ReadersSeeBuilt /\ [][C22_SwapComplete]_vars

\* a reader still holds the table that a growth has replaced and retired
C22_Witness ==
    \E r \in Readers :
        /\ rcu.rd[r].ref \in accel.retired
        /\ accel.ring \notin {0, rcu.rd[r].ref}
        /\ accel.tables[accel.ring].size = 15
        /\ <<rcu.rd[r].ref, r>> \in rcu.wait

-----------------------------------------------------------------------------
(* Claims on the Buffer Reclaimer *)

\* how often event e occurs in the events of the latest operation
CountEv(e) == Cardinality({k \in 1..Len(last.ev) : last.ev[k] = e})

\* the events that give something back: everything but the two memsets
Releases == SelectSeq(last.ev, LAMBDA e : e.e \notin {"memset_buffer", "memset_desc"})

\* slot i of the Tx ring before the latest operation
PreTxSlot(i) == SlotAt(last.pre.buffer, i, ZeroTxBuffer)
\* slot i of the Rx ring before the latest operation
PreRxSlot(i) == SlotAt(last.pre.buffer, i, ZeroRxBuffer)

\* C24: fm10k_clean_tx_ring on an allocated ring releases, for every slot,
\* the packet once if the slot has one, does one packet-level unmap if the
\* slot has a packet and a non-zero mapping length, one page-level unmap if it
\* has no packet but a non-zero mapping length, and nothing else; it leaves
\* every slot cleared and the ring allocated, so that a clean of a ring
\* whose slots are all cleared (a second clean without transmit activity in
\* between) releases and unmaps nothing.
C24_CleanTxExactlyOnce ==
    (last.op = "clean_tx" /\ ~last.pre.buffer.null) =>
        /\ \A i \in 0..(last.pre.count - 1) :
              /\ CountEv(Ev("dev_kfree_skb_any", i)) = IF PreTxSlot(i).skb # 0 THEN 1 ELSE 0
              /\ CountEv(Ev("dma_unmap_single", i))
                    = IF PreTxSlot(i).skb # 0 /\ PreTxSlot(i).len # 0 THEN 1 ELSE 0
              /\ CountEv(Ev("dma_unmap_page", i))
                    = IF PreTxSlot(i).skb = 0 /\ PreTxSlot(i).len # 0 THEN 1 ELSE 0
        /\ \A k \in 1..Len(Releases) :
              /\ Releases[k].i \in 0..(last.pre.count - 1)
              /\ Releases[k].e \in {"dev_kfree_skb_any", "dma_unmap_single", "dma_unmap_page"}
        /\ \A i \in 0..(last.pre.count - 1) :
              SlotAt(tx_ring[0].buffer, i, ZeroTxBuffer) = ZeroTxBuffer
        /\ IsSetUp(tx_ring[0])
        /\ (\A i \in 0..(last.pre.count - 1) : PreTxSlot(i) = ZeroTxBuffer) =>
              (Releases = <<>> /\ tx_ring[0] = last.pre)

\* a clean of a ring with a slot that holds a packet and its mapping and a
\* slot that holds a page mapping only
C24_Witness ==
    /\ last.op = "clean_tx" /\ ~last.pre.buffer.null
    /\ \E i, j \in 0..(last.pre.count - 1) :
          /\ PreTxSlot(i).skb # 0 /\ PreTxSlot(i).len # 0
          /\ PreTxSlot(j).skb = 0 /\ PreTxSlot(j).len # 0
    /\ Len(Releases) = 3

\* C25: fm10k_clean_rx_ring on an allocated ring unmaps and releases every
\* page a slot held, once, and nothing for a slot without a page; releases the
\* packet being assembled if there is one and sets it to null; sets the three
\* cursors to zero; and leaves the buffer array and the descriptor block
\* allocated.  On a ring without a buffer array it changes nothing.
C25_CleanRxResets ==
    /\ (last.op = "clean_rx" /\ ~last.pre.buffer.null) =>
          /\ \A i \in 0..(last.pre.count - 1) :
                /\ CountEv(Ev("dma_unmap_page", i)) = IF PreRxSlot(i).page # 0 THEN 1 ELSE 0
                /\ CountEv(Ev("__free_page", i)) = IF PreRxSlot(i).page # 0 THEN 1 ELSE 0
          /\ CountEv(Ev("dev_kfree_skb", 0)) = IF last.pre.skb # 0 THEN 1 ELSE 0
          /\ Len(Releases) = CountEv(Ev("dev_kfree_skb", 0))
                + 2 * Cardinality({i \in 0..(last.pre.count - 1) : PreRxSlot(i).page # 0})
          /\ rx_ring[0].skb = 0
          /\ \A i \in 0..(last.pre.count - 1) :
                SlotAt(rx_ring[0].buffer, i, ZeroRxBuffer) = ZeroRxBuffer
          /\ rx_ring[0].next_to_use = 0
          /\ rx_ring[0].next_to_clean = 0
          /\ rx_ring[0].next_to_alloc = 0
          /\ IsSetUp(rx_ring[0])
    /\ (last.op = "clean_rx" /\ last.pre.buffer.null) =>
          (rx_ring[0] = last.pre /\ last.ev = <<>>)

\* a clean of a ring with a page in one slot, none in another, a packet being
\* assembled and cursors that had moved
C25_Witness ==
    /\ last.op = "clean_rx" /\ ~last.pre.buffer.null
    /\ last.pre.skb # 0
    /\ last.pre.next_to_use # 0 /\ last.pre.next_to_clean # 0
    /\ \E i, j \in 0..(last.pre.count - 1) :
          PreRxSlot(i).page # 0 /\ PreRxSlot(j).page = 0
    /\ rx_ring[0].next_to_use = 0

-----------------------------------------------------------------------------
(* Claims on fm10k_update_vid *)

\* fm10k_update_vid ran and got past the argument and permission checks
UpdateVidPassed ==
    /\ last.op = "update_vid"
    /\ last.in.vid \in 1..(VLAN_N_VID - 1)
    /\ ~(last.in.set /\ last.pre.intf.vlan_override)

\* ... and returned before it took the mailbox lock
UpdateVidEarly ==
    /\ UpdateVidPassed
    /\ \/ last.pre.intf.vlan_override
       \/ (~last.in.set /\ last.in.vid = last.pre.intf.default_vid)
       \/ last.pre.intf.down

\* ... or did take it
UpdateVidQueues == UpdateVidPassed /\ ~UpdateVidEarly

\* C26: when fm10k_update_vid(vid, set) gets past its checks, on return the
\* bit of vid in the active-VLAN bitmap equals set and no other bit changed,
\* whether the call returned early, queued its requests or failed to.
C26_BitmapFollowsSet ==
    UpdateVidPassed =>
        intf.active_vlans = IF last.in.set
                            THEN last.pre.intf.active_vlans \cup {last.in.vid}
                            ELSE last.pre.intf.active_vlans \ {last.in.vid}

\* a set for a new VLAN whose first enqueue failed: the bit is set although
\* the call returned the error
C26_Witness ==
    /\ UpdateVidQueues
    /\ last.in.set /\ last.in.vid \notin last.pre.intf.active_vlans
    /\ last.ret = -ENOMEM /\ last.ev.enq = <<>>
    /\ last.in.vid \in intf.active_vlans

\* the VLAN-clear flag of a ring's vid field, and the VLAN id in it
VlanClearFlag(v) == (v \div FM10K_VLAN_CLEAR) % 2 = 1
RingVlanId(v) == v % VLAN_N_VID

\* C27: after every fm10k_update_vid that got past its checks, for every
\* receive ring the VLAN-clear flag is set if and only if the ring's VLAN id
\* is in the active-VLAN bitmap, and the ring's VLAN id is what it was.
C27_RingFlagFollowsBitmap ==
    UpdateVidPassed =>
        \A q \in DOMAIN intf.rx_vid :
            /\ VlanClearFlag(intf.rx_vid[q]) <=> (RingVlanId(intf.rx_vid[q]) \in intf.active_vlans)
            /\ RingVlanId(intf.rx_vid[q]) = RingVlanId(last.pre.intf.rx_vid[q])

\* the call added the ring's VLAN id to the bitmap and so set the flag
C27_Witness ==
    /\ UpdateVidPassed
    /\ \E q \in DOMAIN intf.rx_vid :
          /\ ~VlanClearFlag(last.pre.intf.rx_vid[q])
          /\ VlanClearFlag(intf.rx_vid[q])
          /\ RingVlanId(intf.rx_vid[q]) = last.in.vid

\* C28: fm10k_update_vid that got past its checks returns 0 without any
\* enqueue attempt, and leaves the request list and the interface's working
\* VLAN value as they were, when VLAN override is active (a clear), when it
\* removes the default VLAN id, and when the interface is down.
C28_EarlyReturnsQueueNothing ==
    UpdateVidEarly =>
        /\ last.ret = 0
        /\ last.ev.enq = <<>> /\ last.ev.failed = 0 /\ last.ev.mbx = <<>>
        /\ macvlan_requests = last.pre.list
        /\ intf.vid = last.pre.intf.vid

\* a set for a new VLAN on an interface that is down, with the first
\* allocation bound to fail had there been one
C28_Witness ==
    /\ UpdateVidEarly
    /\ last.pre.intf.down /\ ~last.pre.intf.vlan_override
    /\ last.in.set /\ last.in.vid \notin last.pre.intf.active_vlans
    /\ last.in.failAt = 0
    /\ last.ret = 0

\* whether fm10k_update_vid queues a VLAN request
NeedsVlanRequest(I) == ~(("PROMISC" \in I.flags) \/ I.ies) \/ I.vf

\* the requests fm10k_update_vid queues first, in order
UpdateVidRequests ==
    (IF NeedsVlanRequest(last.pre.intf)
     THEN <<[type |-> "FM10K_VLAN_REQUEST", glort |-> 0, addr |-> 0,
             vid |-> last.in.vid, set |-> last.in.set]>>
     ELSE <<>>)
    \o <<[type |-> "FM10K_UC_MAC_REQUEST", glort |-> last.pre.intf.glort,
          addr |-> last.pre.intf.mac_addr, vid |-> last.in.vid, set |-> last.in.set]>>

\* request r without its label
Unlabelled(r) ==
    [type |-> r.type, glort |-> r.glort, addr |-> r.addr, vid |-> r.vid, set |-> r.set]

\* C29: when fm10k_update_vid takes the mailbox lock it queues the VLAN
\* request (none in promiscuous or always-tag mode unless the device is a VF)
\* and then the MAC request of the base address; it returns an error exactly
\* when one of these two enqueues fails, then with the requests queued before
\* the failure only and the working VLAN value unchanged; otherwise the two
\* are the first requests it queued and the working VLAN value is vid, plus
\* VLAN_N_VID for a set.
C29_QueueThenRecord ==
    UpdateVidQueues =>
        /\ last.ret # 0 <=> last.in.failAt \in 0..(Len(UpdateVidRequests) - 1)
        /\ last.ret # 0 =>
              /\ last.ret = -ENOMEM
              /\ Len(last.ev.enq) = last.in.failAt
              /\ \A k \in 1..Len(last.ev.enq) :
                    Unlabelled(last.ev.enq[k]) = UpdateVidRequests[k]
              /\ intf.vid = last.pre.intf.vid
        /\ last.ret = 0 =>
              /\ Len(last.ev.enq) >= Len(UpdateVidRequests)
              /\ \A k \in 1..Len(UpdateVidRequests) :
                    Unlabelled(last.ev.enq[k]) = UpdateVidRequests[k]
              /\ NeedsVlanRequest(last.pre.intf)
                    \/ \A k \in 1..Len(last.ev.enq) : ~IsVlanRequest(last.ev.enq[k])
              /\ intf.vid = last.in.vid + (IF last.in.set THEN VLAN_N_VID ELSE 0)

\* the VLAN request was queued and the allocation of the MAC request failed
C29_Witness ==
    /\ UpdateVidQueues
    /\ NeedsVlanRequest(last.pre.intf)
    /\ last.in.failAt = 1
    /\ last.ret = -ENOMEM
    /\ Len(last.ev.enq) = 1 /\ IsVlanRequest(last.ev.enq[1])
    /\ intf.vid = last.pre.intf.vid

-----------------------------------------------------------------------------
(* Claims on the gap compression of fm10k_clear_unused_vlans *)

\* the maximal runs of consecutive ids in S, as <<first, last>>
MaximalRuns(S) ==
    { <<a, SetMin({b \in S : b >= a /\ (b + 1) \notin S})>>
      : a \in {x \in S : (x - 1) \notin S} }

\* the run of a request by its id field and run-length offset, as <<first, last>>
RequestRun(r) ==
    << r.vid % (2 ^ FM10K_VLAN_LENGTH_SHIFT),
       (r.vid % (2 ^ FM10K_VLAN_LENGTH_SHIFT)) + (r.vid \div (2 ^ FM10K_VLAN_LENGTH_SHIFT)) >>

\* the enqueued VLAN requests are clear requests, one for each run of Runs
\* and none besides, over disjoint runs, at most members + 2 of them
OneRequestPerRun(Runs) ==
    /\ \A k \in 1..Len(VlanEnqueued) :
          ~VlanEnqueued[k].set /\ RequestRun(VlanEnqueued[k]) \in Runs
    /\ \A run \in Runs :
          Cardinality({k \in 1..Len(VlanEnqueued) : RequestRun(VlanEnqueued[k]) = run}) = 1
    /\ \A j, k \in 1..Len(VlanEnqueued) :
          j < k => \/ RequestRun(VlanEnqueued[j])[2] < RequestRun(VlanEnqueued[k])[1]
                   \/ RequestRun(VlanEnqueued[k])[2] < RequestRun(VlanEnqueued[j])[1]
    /\ Len(VlanEnqueued) <= Cardinality(last.pre.intf.active_vlans) + 2

-----------------------------------------------------------------------------
(* Claims on the address callbacks and the receive mode *)

\* one of the four address callbacks ran for an address it accepts, and none
\* of its allocations failed
AddrSyncRan ==
    /\ last.op = "addr_sync"
    /\ IF last.in.mc THEN is_multicast_ether_addr(last.in.addr)
       ELSE is_valid_ether_addr(last.in.addr)
    /\ last.ev.failed = 0

\* the enqueued requests are MAC requests of the callback's address, one for
\* each id of S, in ascending order of id
OneMacRequestPerVlan(S) ==
    /\ last.ret = 0
    /\ Len(last.ev.enq) = Cardinality(S)
    /\ \A k \in 1..Len(last.ev.enq) :
          /\ IsMacRequest(last.ev.enq[k])
          /\ last.ev.enq[k].vid \in S
          /\ last.ev.enq[k].addr = last.in.addr
          /\ last.ev.enq[k].glort = last.pre.intf.glort
          /\ last.ev.enq[k].set = last.in.sync
    /\ \A j, k \in 1..Len(last.ev.enq) :
          j < k => last.ev.enq[j].vid < last.ev.enq[k].vid

C32_RecordsSelectedMode ==
    last.op = "set_rx_mode" =>
        IF "UP" \in last.pre.intf.flags
        THEN /\ "PROMISC" \in intf.flags => intf.xcast_mode = "PROMISC"
             /\ ("PROMISC" \notin intf.flags /\ "ALLMULTI" \in intf.flags)
                   => intf.xcast_mode = "ALLMULTI"
             /\ ({"PROMISC", "ALLMULTI"} \cap intf.flags = {}
                    /\ {"BROADCAST", "MULTICAST"} \cap intf.flags # {})
                   => intf.xcast_mode = "MULTI"
             /\ {"PROMISC", "ALLMULTI", "BROADCAST", "MULTICAST"} \cap intf.flags = {}
                   => intf.xcast_mode = "NONE"
             /\ last.ev.mbx =
                   IF intf.xcast_mode # last.pre.intf.xcast_mode
                      /\ (last.in.ready \/ last.pre.intf.vf)
                   THEN <<[e |-> "update_xcast_mode", i |-> intf.glort,
                           mode |-> intf.xcast_mode]>>
                   ELSE <<>>
             /\ \A k \in 1..Len(last.ev.enq) :
                   IsVlanRequest(last.ev.enq[k]) \/ IsMacRequest(last.ev.enq[k])
        ELSE /\ SameIntf(intf, last.pre.intf)
             /\ last.ev.mbx = <<>> /\ last.ev.enq = <<>> /\ last.ev.failed = 0
             /\ macvlan_requests = last.pre.list

\* promiscuous and allmulti both set on an interface recorded as none, host
\* ready: promiscuous mode is recorded and sent, and requests were queued
C32_Witness ==
    /\ last.op = "set_rx_mode"
    /\ last.pre.intf.flags = {"UP", "PROMISC", "ALLMULTI"}
    /\ last.pre.intf.xcast_mode = "NONE" /\ ~last.pre.intf.vf /\ last.in.ready
    /\ intf.xcast_mode = "PROMISC"
    /\ Len(last.ev.mbx) = 1 /\ last.ev.mbx[1].mode = "PROMISC"
    /\ last.ev.enq # <<>>

-----------------------------------------------------------------------------
(* Claims on the removal and the placement of stations *)

\* the station fm10k_dfwd_del_station was called for was in the table
DelFound ==
    /\ last.op = "del_station"
    /\ last.pre.accel.l2_accel # 0
    /\ \E k \in 1..PreTable.size : PreTable.macvlan[k] = last.in.sdev

\* the table the interface pointed to before the operation, as it is now
PreTableNow == accel.tables[last.pre.accel.l2_accel]

\* the forwarding state without the counters of the calls made
AccelCore(A) == [A EXCEPT !.adds = 0, !.dels = 0, !.fails = 0]

\* C33: fm10k_dfwd_del_station for a station that is not in the table, or
\* when there is no table, changes no slot, count, reference or request list
\* and makes no mailbox call.  For a station that is present it clears that
\* station's slot only and decrements the count by one; what it sends and
\* queues (only when the host mailbox is ready) is a mode update and one
\* MAC removal request, both for the glort dglort + 1 + slot.
C33_DelStation ==
    /\ (last.op = "del_station" /\ ~DelFound) =>
          /\ AccelCore(accel) = AccelCore(last.pre.accel)
          /\ macvlan_requests = last.pre.list
          /\ last.ev.enq = <<>> /\ last.ev.failed = 0 /\ last.ev.mbx = <<>>
    /\ DelFound =>
          /\ PreTable.macvlan[last.ev.slot + 1] = last.in.sdev
          /\ \A k \in 1..last.ev.slot : PreTable.macvlan[k] # last.in.sdev
          /\ PreTableNow.macvlan = [PreTable.macvlan EXCEPT ![last.ev.slot + 1] = 0]
          /\ PreTableNow.count = PreTable.count - 1
          /\ PreTableNow.size = PreTable.size
          /\ \A k \in 1..Len(last.ev.enq) :
                /\ last.ev.enq[k].glort = PreTable.dglort + 1 + last.ev.slot
                /\ last.ev.enq[k].addr = StationAddr(last.in.sdev)
                /\ IsMacRequest(last.ev.enq[k]) /\ ~last.ev.enq[k].set
          /\ Len(last.ev.enq) = IF last.pre.accel.ready /\ last.ev.failed = 0 THEN 1 ELSE 0
          /\ \A k \in 1..Len(last.ev.mbx) :
                last.ev.mbx[k].e = "update_xcast_mode"
                   => last.ev.mbx[k].i = PreTable.dglort + 1 + last.ev.slot
          /\ last.pre.accel.ready
                => \E k \in 1..Len(last.ev.mbx) : last.ev.mbx[k].e = "update_xcast_mode"

\* station 3 removed from slot 2 of a table that keeps its other stations,
\* with the removal request queued
C33_Witness ==
    /\ DelFound
    /\ last.in.sdev = 3 /\ last.ev.slot = 2
    /\ accel.l2_accel = last.pre.accel.l2_accel
    /\ PreTableNow.count >= 2
    /\ Len(last.ev.enq) = 1

\* fm10k_dfwd_add_station returned the station
AddSucceeded == last.op = "add_station" /\ last.ret = last.in.sdev

\* what slot k (from 1) of the table held when the search for a free slot
\* started: the old table's content, nothing in a new table or in the part a
\* larger table adds
SlotBefore(k) ==
    IF last.pre.accel.l2_accel # 0 /\ k <= PreTable.size THEN PreTable.macvlan[k] ELSE 0

\* C34: in every sequence of fm10k_dfwd_add_station / fm10k_dfwd_del_station
\* calls with a fixed glort count, no add writes at or past the end of the
\* table; a successful add writes the station into the lowest free slot i,
\* i < size, and leaves every other slot as it was; the station is in no other
\* slot, so its glort dglort + 1 + i, the one of the request it queues, is the
\* glort of no other station, and it is at most dglort + glort_count - 1.
C34_LowestFreeSlot ==
    /\ last.op = "add_station" => ~last.fault
    /\ AddSucceeded =>
          /\ last.ev.slot < NowTable.size
          /\ \A k \in 1..last.ev.slot : SlotBefore(k) # 0
          /\ SlotBefore(last.ev.slot + 1) = 0
          /\ NowTable.macvlan[last.ev.slot + 1] = last.in.sdev
          /\ \A k \in 1..NowTable.size :
                k # last.ev.slot + 1 =>
                    /\ NowTable.macvlan[k] = SlotBefore(k)
                    /\ NowTable.macvlan[k] # last.in.sdev
          /\ NowTable.dglort + 1 + last.ev.slot
                <= NowTable.dglort + accel.glort_count - 1
          /\ \A k \in 1..Len(last.ev.enq) :
                last.ev.enq[k].glort = NowTable.dglort + 1 + last.ev.slot

\* stations 1 to 3 added, station 1 removed, and the next station placed in
\* the slot that became free, below the stations that stayed
C34_Witness ==
    /\ AddSucceeded
    /\ last.ev.slot = 0
    /\ last.pre.accel.l2_accel # 0
    /\ PreTable.count = 2 /\ PreTable.macvlan[2] = 2 /\ PreTable.macvlan[3] = 3
    /\ NowTable.count = 3
    /\ Len(last.ev.enq) = 1

-----------------------------------------------------------------------------
(* Claims on the change of the MAC address *)

\* the VLAN ids the resynchronisation of an address iterates
SyncedVlans == last.pre.intf.active_vlans \cup {last.pre.intf.default_vid}

\* the positions in the request list of the MAC requests for address addr of
\* the interface's glort on VLAN vid
MacRequestsFor(addr, vid) ==
    {k \in 1..Len(macvlan_requests) :
        /\ IsMacRequest(macvlan_requests[k])
        /\ macvlan_requests[k].glort = intf.glort
        /\ macvlan_requests[k].addr = addr
        /\ macvlan_requests[k].vid = vid}

\* whether the switch's MAC table holds addr for the interface's glort on vid
\* once every request of the list has been forwarded in order: the last
\* request for the entry decides, and without one the entry is as before the
\* call, when the table held the interface's address on the VLANs iterated
InMacTableAfterDrain(addr, vid) ==
    IF MacRequestsFor(addr, vid) = {}
    THEN addr = last.pre.intf.mac_addr /\ vid \in SyncedVlans
    ELSE macvlan_requests[CHOOSE k \in MacRequestsFor(addr, vid) :
                             \A j \in MacRequestsFor(addr, vid) : j <= k].set

\* C35 as stated: after fm10k_set_mac on an up interface returned 0 and the
\* request list has been forwarded in order, the switch's MAC table holds the
\* new address on every VLAN the resynchronisation iterates, also when the
\* new address is the current one; after a call that failed the interface's
\* address is what it was.
C35_NewAddressInstalled ==
    (last.op = "set_mac" /\ "UP" \in last.pre.intf.flags) =>
        /\ last.ret = 0 =>
              \A vid \in SyncedVlans : InMacTableAfterDrain(last.in.addr, vid)
        /\ last.ret # 0 => intf.mac_addr = last.pre.intf.mac_addr

\* C35 for a new address that differs from the current one: the property
\* holds
C35_OtherAddress ==
    (/\ last.op = "set_mac" /\ "UP" \in last.pre.intf.flags
     /\ last.in.addr # last.pre.intf.mac_addr) =>
        /\ last.ret = 0 =>
              \A vid \in SyncedVlans : InMacTableAfterDrain(last.in.addr, vid)
        /\ last.ret # 0 => intf.mac_addr = last.pre.intf.mac_addr

-----------------------------------------------------------------------------
(* Claims on the xcast mode recorded and the xcast mode sent *)

\* the update_xcast_mode calls for the interface's glort among the calls cs
XcastCalls(cs) ==
    SelectSeq(cs, LAMBDA c : c.e = "update_xcast_mode" /\ c.i = intf.glort)

\* the mode last sent for the interface's glort among the calls cs, "unset"
\* when there is none
LastSentMode(cs) ==
    IF XcastCalls(cs) = <<>> THEN "unset" ELSE XcastCalls(cs)[Len(XcastCalls(cs))].mode

\* the logical port has been enabled
LportUp ==
    \E k \in 1..Len(mbx) : mbx[k].e = "update_lport_state" /\ mbx[k].enable

\* fm10k_set_rx_mode on an up interface, or fm10k_restore_rx_state
XcastOp ==
    /\ last.op \in {"set_rx_mode", "restore_rx_state"}
    /\ "UP" \in intf.flags

\* fm10k_host_mbx_ready at the call
WasReady == last.in.ready \/ last.pre.intf.vf

\* C36 as stated: a call that records a new xcast mode has sent that mode,
\* and while the logical port is up the recorded mode is the last mode sent.
C36_RecordedIsSent ==
    /\ (XcastOp /\ intf.xcast_mode # last.pre.intf.xcast_mode) =>
          LastSentMode(last.ev.mbx) = intf.xcast_mode
    /\ LportUp => LastSentMode(mbx) = intf.xcast_mode

\* C36: fm10k_set_rx_mode and fm10k_restore_rx_state record the mode the
\* flags select whether or not they send it.  They send it, once, exactly when
\* fm10k_host_mbx_ready holds at the call and, for fm10k_set_rx_mode, the mode
\* differs from the one recorded; so a call made when the mailbox is ready
\* leaves the recorded mode equal to the last mode sent if it changed the
\* mode, if it is fm10k_restore_rx_state, or if the two were equal before;
\* a mode recorded when the mailbox was not ready is not sent by a call that
\* finds the mode unchanged.  On a VF the recorded mode is the last mode sent
\* whenever the logical port is up.
C36_SentWhenReady ==
    /\ XcastOp =>
          /\ intf.xcast_mode = XcastMode(intf.flags)
          /\ XcastCalls(last.ev.mbx) =
                IF WasReady /\ (last.op = "restore_rx_state"
                                   \/ intf.xcast_mode # last.pre.intf.xcast_mode)
                THEN <<[e |-> "update_xcast_mode", i |-> intf.glort,
                        mode |-> intf.xcast_mode]>>
                ELSE <<>>
          /\ (WasReady /\ (\/ last.op = "restore_rx_state"
                           \/ intf.xcast_mode # last.pre.intf.xcast_mode
                           \/ LastSentMode(last.pre.mbx) = last.pre.intf.xcast_mode))
                => LastSentMode(mbx) = intf.xcast_mode
          /\ (~WasReady \/ (last.op = "set_rx_mode"
                               /\ intf.xcast_mode = last.pre.intf.xcast_mode))
                => LastSentMode(mbx) = LastSentMode(last.pre.mbx)
    /\ (intf.vf /\ LportUp) => LastSentMode(mbx) = intf.xcast_mode

\* the logical port is up with mode none sent; promiscuous mode was recorded by
\* a call that found the mailbox not ready; the mailbox is ready again and
\* fm10k_set_rx_mode, called for the same flags, sends nothing
C36_Witness ==
    /\ XcastOp /\ last.op = "set_rx_mode" /\ last.in.ready
    /\ LportUp
    /\ last.pre.intf.xcast_mode = "PROMISC" /\ intf.xcast_mode = "PROMISC"
    /\ LastSentMode(last.pre.mbx) = "NONE"
    /\ last.ev.mbx = <<>>
    /\ LastSentMode(mbx) = "NONE"

-----------------------------------------------------------------------------
(* Claims on open and close with the zero-copy usage counter *)

AllSetUp(tx, rx) ==
    /\ \A q \in DOMAIN tx : IsSetUp(tx[q])
    /\ \A q \in DOMAIN rx : IsSetUp(rx[q])

AllTornDown(tx, rx) ==
    /\ \A q \in DOMAIN tx : IsTornDown(tx[q])
    /\ \A q \in DOMAIN rx : IsTornDown(rx[q])

\* the events named name among the events of the latest operation
EventsNamed(name) == SelectSeq(last.ev, LAMBDA e : e.e = name)

-----------------------------------------------------------------------------
(* Claims on the UDP tunnel port lists *)

\* the ids of the entries of a list
PortIds(ports) == {ports[k].id : k \in 1..Len(ports)}

\* how many times id was given to kfree by the latest call
FreedCount(id) ==
    Cardinality({k \in (Len(last.pre.udp.freed) + 1)..Len(udp.freed) : udp.freed[k] = id})

\* C38 as stated: after fm10k_free_udp_port_info both lists are empty and
\* every entry that was on either list has been freed exactly once, whatever
\* the lengths of the lists.
C38_BothListsFlushed ==
    last.op = "free_udp_port_info" =>
        /\ udp.vxlan_port = <<>>
        /\ udp.geneve_port = <<>>
        /\ \A id \in PortIds(last.pre.udp.vxlan_port) \cup PortIds(last.pre.udp.geneve_port) :
              FreedCount(id) = 1

\* C38 for at most one GENEVE entry: the property holds
C38_OneGeneve ==
    (last.op = "free_udp_port_info" /\ Len(last.pre.udp.geneve_port) <= 1) =>
        /\ udp.vxlan_port = <<>>
        /\ udp.geneve_port = <<>>
        /\ \A id \in PortIds(last.pre.udp.vxlan_port) \cup PortIds(last.pre.udp.geneve_port) :
              FreedCount(id) = 1

\* with two or more GENEVE entries, only the first is taken off the list and
\* freed, whatever the VXLAN list holds
C38_GeneveTailKept ==
    (last.op = "free_udp_port_info" /\ Len(last.pre.udp.geneve_port) >= 2) =>
        /\ udp.vxlan_port = <<>>
        /\ udp.geneve_port = Tail(last.pre.udp.geneve_port)
        /\ \A k \in 1..Len(udp.geneve_port) : FreedCount(udp.geneve_port[k].id) = 0

=============================================================================
